---- MODULE Spec2Model ----
(***************************************************************************)
(* Todoist <-> Obsidian synchronizer: the Command Queue (CommandManager),  *)
(* the Reconciliation Engine (syncOrFullSyncTasks) and the vault, Identity *)
(* Index (the three *FileCache maps) and SnapshotCache (the three cached*  *)
(* arrays) they share.                                                     *)
(*                                                                         *)
(* A name is a sequence of tokens (runs of characters): two names that     *)
(* start with the same characters start with the same token ("A" and       *)
(* "A","rchive").  A path is a sequence of names; a document's name ends   *)
(* with the token ".md".  Frontmatter and command arguments are functions  *)
(* from the keys that are set to values.                                   *)
(***************************************************************************)
EXTENDS Integers, Sequences, FiniteSets, TLC

VARIABLES
    \* ---- Local Tree Store (the vault) ----
    files,              \* path of a document -> its frontmatter
    folders,            \* set of folder paths
    \* ---- Identity Index ----
    projectFileCache,   \* project id -> path
    sectionFileCache,   \* section id -> path
    taskFileCache,      \* task id -> path
    \* ---- SnapshotCache ----
    cachedProjects,     \* sequence of Project
    cachedSections,     \* sequence of Section
    cachedTasks,        \* sequence of Item
    \* ---- persisted SyncCursor ----
    syncToken,          \* content of sync_token.txt ("" when absent)
    \* ---- plugin flags ----
    isSyncing,
    isInitialLoad,
    \* ---- CommandManager ----
    pendingCommands,    \* the Map's values (TodoistCommand) in insertion order
    timer,              \* obsidianChangeTimeout: -1 when not armed, else ms left
    isProcessing,
    inFlight,           \* the drains awaiting postTodoistCommands, oldest first
    nextUuid,           \* generateUUID(): number of uuids handed out
    window,             \* the commands passed to queueTodoistCommand since the Map was last emptied
    \* ---- Remote Task Service ----
    remote,             \* [projects, sections, tasks, issued]
    changed,            \* ids changed since the cursor was issued
    nRemoteEdits,
    \* ---- one pass of syncOrFullSyncTasks ----
    pass,               \* the locals of the running pass, or NoPass
    nPasses,
    \* ---- the handler that ran last (time passing is none), with its inputs ----
    lastOp

vars == <<files, folders, projectFileCache, sectionFileCache, taskFileCache,
          cachedProjects, cachedSections, cachedTasks, syncToken, isSyncing,
          isInitialLoad, pendingCommands, timer, isProcessing, inFlight,
          nextUuid, window, remote, changed, nRemoteEdits, pass, nPasses, lastOp>>

vaultVars == <<files, folders>>
indexVars == <<projectFileCache, sectionFileCache, taskFileCache>>
snapshotVars == <<cachedProjects, cachedSections, cachedTasks>>
queueVars == <<pendingCommands, timer, isProcessing, inFlight, nextUuid, window>>
remoteVars == <<remote, changed, nRemoteEdits>>
passVars == <<pass, nPasses>>
pluginVars == <<isSyncing, isInitialLoad>>

----------------------------------------------------------------------------
(* Bounds of the model *)

MaxEnqueues == 2
MaxRemoteEdits == 1
MaxPasses == 2

----------------------------------------------------------------------------
(* Generic helpers *)

Null == "null"

\* the empty function (an object with no key, an empty Map)
Empty == [k \in {} |-> Null]

Has(f, k) == k \in DOMAIN f

Get(f, k) == IF k \in DOMAIN f THEN f[k] ELSE Null

\* Map.set
MapSet(f, k, v) == (k :> v) @@ f

\* Map.delete
MapDelete(f, k) == [x \in (DOMAIN f) \ {k} |-> f[x]]

\* { ...a, ...b }
Spread(a, b) == b @@ a

IsPrefix(p, q) == Len(p) <= Len(q) /\ SubSeq(q, 1, Len(p)) = p

Last(s) == s[Len(s)]

Front(s) == SubSeq(s, 1, Len(s) - 1)

----------------------------------------------------------------------------
(* Names and paths *)

MD == ".md"

baseFolder == <<"Todoist">>
archiveFolder == <<"A", "rchive">>
trashFolder == <<"Trash">>
doneFolder == <<"Done">>

InvalidChars == {"\\", "/", ":", "*", "?", "\"", "<", ">", "|"}

RECURSIVE TrimStart(_)
TrimStart(s) ==
    IF s # <<>> /\ Head(s) = " " THEN TrimStart(Tail(s)) ELSE s

RECURSIVE TrimEnd(_)
TrimEnd(s) ==
    IF s # <<>> /\ Last(s) = " " THEN TrimEnd(Front(s)) ELSE s

\* name.replace(/[\\/:*?"<>|]/g, '_').trim()
sanitizeName(name) ==
    TrimEnd(TrimStart([i \in 1..Len(name) |->
                          IF name[i] \in InvalidChars THEN "_" ELSE name[i]]))

NonEmptyName(n) == n # <<>>

\* obsidian's normalizePath: empty segments (doubled or trailing slashes) drop out
normalizePath(p) == SelectSeq(p, NonEmptyName)

baseFolderPath == normalizePath(<<baseFolder>>)
archiveFolderPath == normalizePath(<<baseFolder, archiveFolder>>)
trashFolderPath == normalizePath(<<baseFolder, trashFolder>>)
doneFolderPath == normalizePath(<<baseFolder, doneFolder>>)

\* `${name}.md`
MdName(name) == name \o <<MD>>

\* TFile.basename
Basename(path) == IF Last(Last(path)) = MD THEN Front(Last(path)) ELSE Last(path)

\* `${basename}_${conflictIndex}.md`
ConflictName(basename, conflictIndex) ==
    basename \o <<"_", ToString(conflictIndex), MD>>

----------------------------------------------------------------------------
(* The vault: v = [files |-> path -> frontmatter, folders |-> set of paths] *)

Vault == [files |-> files, folders |-> folders]

IsTFile(v, p) == p \in DOMAIN v.files

IsTFolder(v, p) == p \in v.folders

\* vault.getAbstractFileByPath(p) is not null
Exists(v, p) == IsTFile(v, p) \/ IsTFolder(v, p)

Prefixes(p) == {SubSeq(p, 1, n) : n \in 0..Len(p)}

\* vault.createFolder (adapter.mkdir creates the missing parents)
createFolder(v, p) == [v EXCEPT !.folders = @ \cup Prefixes(p)]

\* vault.create throws when the path is taken or its folder is missing
CanCreate(v, p) == ~Exists(v, p) /\ IsTFolder(v, Front(p))

create(v, p, fm) == [v EXCEPT !.files = (p :> fm) @@ @]

\* fileManager.renameFile throws when the destination is taken or has no folder
CanRename(v, from, to) ==
    /\ Exists(v, from)
    /\ ~Exists(v, to)
    /\ IsTFolder(v, Front(to))
    /\ ~IsPrefix(from, to)

Moved(from, to, p) == to \o SubSeq(p, Len(from) + 1, Len(p))

\* fileManager.renameFile on a document or on a folder with all it holds
renameFile(v, from, to) ==
    LET under(p) == IsPrefix(from, p)
        mv(p) == IF under(p) THEN Moved(from, to, p) ELSE p
        oldFiles == DOMAIN v.files
        newFiles == {mv(p) : p \in oldFiles}
        src(q) == CHOOSE p \in oldFiles : mv(p) = q
    IN  [files |-> [q \in newFiles |-> v.files[src(q)]],
         folders |-> {mv(p) : p \in v.folders}]

\* vault.trash: the document, or the folder with all it holds, leaves the vault
trash(v, p) ==
    [files |-> [q \in {x \in DOMAIN v.files : ~IsPrefix(p, x)} |-> v.files[q]],
     folders |-> {x \in v.folders : ~IsPrefix(p, x)}]

\* TFolder.children
Children(v, p) ==
    {x \in (DOMAIN v.files) \cup v.folders : x # <<>> /\ Front(x) = p}

\* fileManager.processFrontMatter(file, fm => { fm.k = v ... })
processFrontMatter(v, p, assigned) ==
    [v EXCEPT !.files[p] = Spread(@, assigned)]

\* the first free name in moveFileToCustomLocation's conflict loop
MoveTarget(v, file, targetParentPath) ==
    LET candidate(n) ==
            normalizePath(targetParentPath \o
                <<IF n = 0 THEN Last(file) ELSE ConflictName(Basename(file), n)>>)
        conflictIndex ==
            CHOOSE n \in 0..(Cardinality(DOMAIN v.files) + Cardinality(v.folders)) :
                /\ ~Exists(v, candidate(n))
                /\ \A m \in 0..(n - 1) : Exists(v, candidate(m))
    IN  candidate(conflictIndex)

EnsureFolder(v, p) == IF Exists(v, p) THEN v ELSE createFolder(v, p)

\* moveFileToCustomLocation rethrows what createFolder or renameFile throws
MoveThrows(v, file, targetParentPath) ==
    LET v1 == EnsureFolder(v, targetParentPath)
    IN  ~CanRename(v1, file, MoveTarget(v1, file, targetParentPath))

moveFileToCustomLocation(v, file, targetParentPath) ==
    LET v1 == EnsureFolder(v, targetParentPath)
        targetPath == MoveTarget(v1, file, targetParentPath)
    IN  IF CanRename(v1, file, targetPath) THEN renameFile(v1, file, targetPath)
        ELSE v1

----------------------------------------------------------------------------
(* Command Queue (CommandManager) *)

DEBOUNCE_DELAY == 2000

\* the granularity at which time is seen to pass
TickMs == 1000

\* new Date().toISOString()
Now == "now"

NoOp == [op |-> "init"]

commandKey(command) ==
    IF Has(command.args, "id") THEN command.args.id ELSE command.uuid

\* pendingCommands is a Map: here the sequence of its values in insertion
\* order, no two with the same key
PendingIndex(pending, key) ==
    IF \E i \in 1..Len(pending) : commandKey(pending[i]) = key
    THEN CHOOSE i \in 1..Len(pending) : commandKey(pending[i]) = key
    ELSE 0

PendingHas(pending, key) == PendingIndex(pending, key) # 0

PendingGet(pending, key) == pending[PendingIndex(pending, key)]

\* Map.set keeps the position of a key that is already there
PendingSet(pending, key, command) ==
    IF PendingHas(pending, key)
    THEN [pending EXCEPT ![PendingIndex(pending, key)] = command]
    ELSE Append(pending, command)

\* variant: the new command always replaces the pending one
queueAlwaysOverwrites(pending, command) ==
    PendingSet(pending, commandKey(command), command)

\* variant: updates merge, any other command leaves a pending one in place
queueKeepsPending(pending, command) ==
    LET key == commandKey(command)
        existingCommand == PendingGet(pending, key)
    IN  IF ~PendingHas(pending, key) THEN Append(pending, command)
        ELSE IF existingCommand.type = "item_update" /\ command.type = "item_update"
        THEN PendingSet(pending, key,
                 [existingCommand EXCEPT !.args = Spread(@, command.args)])
        ELSE pending

\* pendingCommands after queueTodoistCommand(command)
queueTodoistCommand(pending, command) ==
    LET key == commandKey(command)
        existingCommand == PendingGet(pending, key)
    IN  IF PendingHas(pending, key)
             /\ existingCommand.type = "item_update"
             /\ command.type = "item_update"
        THEN PendingSet(pending, key,
                 [existingCommand EXCEPT !.args = Spread(@, command.args)])
        ELSE IF PendingHas(pending, key)
             /\ command.type = "item_complete"
             /\ existingCommand.type \in {"item_update", "item_uncomplete"}
        THEN PendingSet(pending, key, command)
        ELSE IF PendingHas(pending, key)
             /\ command.type = "item_uncomplete"
             /\ existingCommand.type = "item_update"
        THEN PendingSet(pending, key, command)
        ELSE PendingSet(pending, key, command)

\* variant: a timer that is armed is left running
scheduleUnlessArmed == IF timer >= 0 THEN timer ELSE DEBOUNCE_DELAY

\* scheduleProcessPendingCommands: clearTimeout, then setTimeout(DEBOUNCE_DELAY)
scheduleProcessPendingCommands == DEBOUNCE_DELAY

\* the commands that get a file operation after the API call
RECURSIVE postApiFileOps(_, _, _)
postApiFileOps(batch, v, taskCache) ==
    IF batch = <<>> THEN <<>>
    ELSE LET command == Head(batch)
             taskId == command.args.id
             hasFile == Has(taskCache, taskId) /\ IsTFile(v, taskCache[taskId])
             op == [command |-> command, originalFile |-> Get(taskCache, taskId)]
             forComplete ==
                 IF command.type = "item_complete" /\ hasFile THEN <<op>> ELSE <<>>
             forUpdate ==
                 IF /\ command.type = "item_update"
                    /\ (Has(command.args, "project_id") \/ Has(command.args, "section_id"))
                    /\ hasFile
                 THEN <<op>> ELSE <<>>
         IN  forComplete \o forUpdate \o postApiFileOps(Tail(batch), v, taskCache)

\* items.find(x => x.id === id): its position, 0 when there is none
FindById(items, id) ==
    IF \E i \in 1..Len(items) : items[i].id = id
    THEN CHOOSE i \in 1..Len(items) :
             items[i].id = id /\ \A j \in 1..(i - 1) : items[j].id # id
    ELSE 0

\* variant: an update also stamps the cached task completed
ApplyCommandStamps(tasks, command) ==
    LET i == FindById(tasks, command.args.id)
        args == command.args
        taskInCache == tasks[i]
    IN  IF i = 0 THEN tasks
        ELSE IF command.type \in {"item_complete", "item_update"}
        THEN [tasks EXCEPT ![i] =
                 [taskInCache EXCEPT
                     !.is_completed = TRUE,
                     !.completed_at =
                         IF Has(args, "completed_at") THEN args.completed_at ELSE Now,
                     !.content = IF Has(args, "content") THEN args.content ELSE @,
                     !.priority = IF Has(args, "priority") THEN args.priority ELSE @]]
        ELSE tasks

\* the cache update of one command whose status is "ok"
ApplyCommand(tasks, command) ==
    LET i == FindById(tasks, command.args.id)
        args == command.args
        taskInCache == tasks[i]
    IN  IF i = 0 THEN tasks
        ELSE IF command.type = "item_complete"
        THEN [tasks EXCEPT ![i] =
                 [taskInCache EXCEPT
                     !.is_completed = TRUE,
                     !.completed_at =
                         IF Has(args, "completed_at") THEN args.completed_at ELSE Now]]
        ELSE IF command.type = "item_update"
        THEN [tasks EXCEPT ![i] =
                 [taskInCache EXCEPT
                     !.content = IF Has(args, "content") THEN args.content ELSE @,
                     !.due_string = IF Has(args, "due_string") THEN args.due_string ELSE @,
                     !.priority = IF Has(args, "priority") THEN args.priority ELSE @,
                     !.project_id = IF Has(args, "project_id") THEN args.project_id ELSE @,
                     !.section_id = IF Has(args, "section_id") THEN args.section_id ELSE @]]
        ELSE tasks

\* the loop over batchedTodoistCommands when apiResult.success
RECURSIVE ApplyCommands(_, _, _)
ApplyCommands(tasks, batch, syncStatus) ==
    IF batch = <<>> THEN tasks
    ELSE LET command == Head(batch)
             commandSuccess ==
                 Has(syncStatus, command.uuid) /\ syncStatus[command.uuid] = "ok"
             next == IF ~commandSuccess /\ command.type # "item_add"
                     THEN tasks
                     ELSE ApplyCommand(tasks, command)
         IN  ApplyCommands(next, Tail(batch), syncStatus)

\* what the post-API file operation of an item_complete writes
CompleteFrontmatter(command) ==
    [completed |-> TRUE,
     completed_at |-> IF Has(command.args, "completed_at")
                      THEN command.args.completed_at ELSE Now,
     task_id |-> command.args.id]

\* the loop over postApiFileOps; a document that is gone makes
\* processFrontMatter throw, which the loop catches
RECURSIVE RunFileOps(_, _)
RunFileOps(v, ops) ==
    IF ops = <<>> THEN v
    ELSE LET op == Head(ops)
             next ==
                 IF op.command.type = "item_complete" /\ IsTFile(v, op.originalFile)
                 THEN moveFileToCustomLocation(
                          processFrontMatter(v, op.originalFile,
                                             CompleteFrontmatter(op.command)),
                          op.originalFile, doneFolderPath)
                 ELSE v
         IN  RunFileOps(next, Tail(ops))

\* postTodoistCommands: success only when every status is "ok"
allOk(result) ==
    result.ok /\ \A uuid \in DOMAIN result.syncStatus : result.syncStatus[uuid] = "ok"

\* the Remote Task Service carries out a command it answers "ok"
RemoteAccept(tasks, command) ==
    LET id == command.args.id
        args == command.args
    IN  IF ~Has(tasks, id) THEN tasks
        ELSE IF command.type = "item_complete"
        THEN [tasks EXCEPT ![id].is_completed = TRUE,
                           ![id].completed_at =
                               IF Has(args, "completed_at") THEN args.completed_at ELSE Now]
        ELSE IF command.type = "item_uncomplete"
        THEN [tasks EXCEPT ![id].is_completed = FALSE, ![id].completed_at = Null]
        ELSE [tasks EXCEPT
                 ![id].content = IF Has(args, "content") THEN args.content ELSE @,
                 ![id].description =
                     IF Has(args, "description") THEN args.description ELSE @,
                 ![id].due_string = IF Has(args, "due_string") THEN args.due_string ELSE @,
                 ![id].priority = IF Has(args, "priority") THEN args.priority ELSE @]

RECURSIVE RemoteAcceptAll(_, _, _)
RemoteAcceptAll(tasks, batch, syncStatus) ==
    IF batch = <<>> THEN tasks
    ELSE RemoteAcceptAll(
             IF syncStatus[Head(batch).uuid] = "ok"
             THEN RemoteAccept(tasks, Head(batch)) ELSE tasks,
             Tail(batch), syncStatus)

\* the sync_token of the n-th answer of the Remote Task Service
Token(n) == ToString(n)

----------------------------------------------------------------------------
(* Frontmatter written by the Reconciliation Engine *)

\* updateObsidianProjectFile
ProjectFrontmatter(project) ==
    [type |-> "project", todoist_id |-> project.id, name |-> project.name,
     is_archived |-> project.is_archived, is_deleted |-> project.is_deleted]

\* updateObsidianSectionFile
SectionFrontmatter(section, project) ==
    [type |-> "section", todoist_id |-> section.id, name |-> section.name,
     project_id |-> section.project_id, project_name |-> project.name,
     is_archived |-> section.is_archived, is_deleted |-> section.is_deleted]

\* updateObsidianTask
TaskFrontmatter(task) ==
    [type |-> "task", todoist_id |-> task.id, content |-> task.content,
     description |-> task.description,
     project_id |-> task.project_id, section_id |-> task.section_id,
     due_string |-> task.due_string, priority |-> task.priority,
     completed |-> (task.completed_at # Null), completed_at |-> task.completed_at,
     is_deleted |-> task.is_deleted]

----------------------------------------------------------------------------
(* The entities of the model *)

ProjectIds == {"p1"}
SectionIds == {"s1"}
TaskIds == {"t1", "t2"}

Project(id, name) ==
    [id |-> id, name |-> name, is_archived |-> FALSE, is_deleted |-> FALSE]

Section(id, name, project_id) ==
    [id |-> id, name |-> name, project_id |-> project_id,
     is_archived |-> FALSE, is_deleted |-> FALSE]

Item(id, content, project_id, section_id) ==
    [id |-> id, content |-> content, description |-> <<>>, project_id |-> project_id,
     section_id |-> section_id, priority |-> 1, due_string |-> Null,
     completed_at |-> Null, is_completed |-> FALSE, is_deleted |-> FALSE]

\* the account the plugin is pointed at
Remote0 ==
    [projects |-> ("p1" :> Project("p1", <<"A">>)),
     sections |-> ("s1" :> Section("s1", <<"S">>, "p1")),
     tasks |-> ("t1" :> Item("t1", <<"X">>, "p1", Null))
               @@ ("t2" :> Item("t2", <<"Y">>, "p1", "s1")),
     issued |-> 0]

\* the order in which the Remote Task Service lists entities
IdOrder == <<"p1", "s1", "t1", "t2">>

Rank(id) == CHOOSE i \in 1..Len(IdOrder) : IdOrder[i] = id

RECURSIVE SeqOfSet(_)
SeqOfSet(S) ==
    IF S = {} THEN <<>>
    ELSE LET x == CHOOSE y \in S : \A z \in S : Rank(y) <= Rank(z)
         IN  <<x>> \o SeqOfSet(S \ {x})

\* the values of a map as a sequence, in the order of the ids
Values(f) == [i \in 1..Cardinality(DOMAIN f) |-> f[SeqOfSet(DOMAIN f)[i]]]

----------------------------------------------------------------------------
(* Command Queue: the handlers *)

\* the intents the change detector can enqueue for a task
CommandInputs(uuid) ==
    LET updateArgs(id) ==
            {[id |-> id, content |-> <<"Z">>],
             [id |-> id, content |-> <<"X">>, priority |-> 4]}
    IN  UNION {
            {[type |-> "item_update", uuid |-> uuid, args |-> a] : a \in updateArgs(id)}
            \cup {[type |-> "item_complete", uuid |-> uuid,
                   args |-> [id |-> id, completed_at |-> Now]]}
            \cup {[type |-> "item_uncomplete", uuid |-> uuid, args |-> [id |-> id]]}
          : id \in TaskIds}

\* what the Remote Task Service can answer to a batch
ApiResults(batch) ==
    LET uuids == {batch[i].uuid : i \in 1..Len(batch)}
    IN  {[ok |-> FALSE, syncStatus |-> Empty]}
        \cup {[ok |-> TRUE, syncStatus |-> st] : st \in [uuids -> {"ok", "error"}]}

\* a change detector calls queueTodoistCommand(command)
QueueCommand ==
    /\ nextUuid < MaxEnqueues
    /\ \E command \in CommandInputs(ToString(nextUuid + 1)) :
        /\ pendingCommands' = queueTodoistCommand(pendingCommands, command)
        /\ window' = Append(window, command)
        /\ lastOp' = [op |-> "queue", command |-> command]
    /\ timer' = scheduleProcessPendingCommands
    /\ nextUuid' = nextUuid + 1
    /\ UNCHANGED <<isProcessing, inFlight>>
    /\ UNCHANGED <<vaultVars, indexVars, snapshotVars, syncToken, pluginVars,
                   remoteVars, passVars>>

\* time passes on the armed timer
Tick ==
    /\ timer > 0
    /\ timer' = IF timer > TickMs THEN timer - TickMs ELSE 0
    /\ UNCHANGED <<pendingCommands, isProcessing, inFlight, nextUuid, window, lastOp>>
    /\ UNCHANGED <<vaultVars, indexVars, snapshotVars, syncToken, pluginVars,
                   remoteVars, passVars>>

\* variant: a call that finds a drain in flight empties the queue
BeginDrainDropsWhenBusy(op) ==
    IF isProcessing \/ pendingCommands = <<>>
    THEN /\ lastOp' = [op |-> op, started |-> FALSE]
         /\ pendingCommands' = <<>>
         /\ window' = <<>>
         /\ UNCHANGED <<isProcessing, inFlight>>
    ELSE /\ isProcessing' = TRUE
         /\ pendingCommands' = <<>>
         /\ window' = <<>>
         /\ inFlight' = Append(inFlight,
                [batch |-> pendingCommands,
                 intents |-> window,
                 ops |-> postApiFileOps(pendingCommands, Vault, taskFileCache)])
         /\ lastOp' = [op |-> op, started |-> TRUE]

\* a drain that starts whether or not another one is in flight
BeginDrainWhileBusy(op) ==
    IF pendingCommands = <<>>
    THEN /\ lastOp' = [op |-> op, started |-> FALSE]
         /\ UNCHANGED <<pendingCommands, isProcessing, inFlight, window>>
    ELSE /\ isProcessing' = TRUE
         /\ pendingCommands' = <<>>
         /\ window' = <<>>
         /\ inFlight' = Append(inFlight,
                [batch |-> pendingCommands,
                 intents |-> window,
                 ops |-> postApiFileOps(pendingCommands, Vault, taskFileCache)])
         /\ lastOp' = [op |-> op, started |-> TRUE]

\* processPendingCommands up to its await of postTodoistCommands
BeginDrain(op) ==
    IF isProcessing \/ pendingCommands = <<>>
    THEN /\ lastOp' = [op |-> op, started |-> FALSE]
         /\ UNCHANGED <<pendingCommands, isProcessing, inFlight, window>>
    ELSE /\ isProcessing' = TRUE
         /\ pendingCommands' = <<>>
         /\ window' = <<>>
         /\ inFlight' = Append(inFlight,
                [batch |-> pendingCommands,
                 intents |-> window,
                 ops |-> postApiFileOps(pendingCommands, Vault, taskFileCache)])
         /\ lastOp' = [op |-> op, started |-> TRUE]

\* the timer's callback
TimerFire ==
    /\ timer = 0
    /\ IF isProcessing
       THEN /\ timer' = scheduleProcessPendingCommands
            /\ lastOp' = [op |-> "fire", started |-> FALSE]
            /\ UNCHANGED <<pendingCommands, isProcessing, inFlight, window>>
       ELSE /\ timer' = -1
            /\ BeginDrain("fire")
    /\ UNCHANGED nextUuid
    /\ UNCHANGED <<vaultVars, indexVars, snapshotVars, syncToken, pluginVars,
                   remoteVars, passVars>>

\* processPendingCommands is public: a call that does not come from the timer
ProcessNow ==
    /\ BeginDrain("direct")
    /\ UNCHANGED <<timer, nextUuid>>
    /\ UNCHANGED <<vaultVars, indexVars, snapshotVars, syncToken, pluginVars,
                   remoteVars, passVars>>

\* the ids of the tasks whose objects a pass in progress shares with
\* plugin.cachedTasks: all of them until the fetch returns; then, on an
\* incremental pass, those mergeById took over from the cache; none on a full
\* pass, which replaces the array by the fetched one
SharedTaskIds ==
    IF pass.phase = "idle" THEN {}
    ELSE IF pass.phase = "fetch" THEN TaskIds
    ELSE IF pass.isFullSync THEN {}
    ELSE TaskIds \ {pass.fetchedData.tasks[i].id : i \in 1..Len(pass.fetchedData.tasks)}

\* the commands of a batch that are about the given tasks
RECURSIVE CommandsAbout(_, _)
CommandsAbout(batch, ids) ==
    IF batch = <<>> THEN <<>>
    ELSE (IF Head(batch).args.id \in ids THEN <<Head(batch)>> ELSE <<>>)
         \o CommandsAbout(Tail(batch), ids)

\* postTodoistCommands answers: processPendingCommands from there to its end
DispatchReturn ==
    \E i \in 1..Len(inFlight) : \E result \in ApiResults(inFlight[i].batch) :
        LET drain == inFlight[i]
            v == RunFileOps(Vault, drain.ops)
        IN  /\ lastOp' = [op |-> "return", drain |-> drain, result |-> result]
            /\ inFlight' = [j \in 1..(Len(inFlight) - 1) |->
                               IF j < i THEN inFlight[j] ELSE inFlight[j + 1]]
            /\ cachedTasks' =
                   IF allOk(result)
                   THEN ApplyCommands(cachedTasks, drain.batch, result.syncStatus)
                   ELSE cachedTasks
            /\ files' = v.files
            /\ folders' = v.folders
            /\ IF result.ok
               THEN /\ syncToken' = Token(remote.issued + 1)
                    /\ remote' = [remote EXCEPT
                           !.issued = @ + 1,
                           !.tasks = RemoteAcceptAll(@, drain.batch, result.syncStatus)]
               ELSE UNCHANGED <<syncToken, remote>>
            /\ isProcessing' = FALSE
            /\ timer' = IF pendingCommands # <<>>
                        THEN scheduleProcessPendingCommands ELSE timer
            /\ pass' =
                   IF pass.phase # "idle" /\ allOk(result)
                   THEN [pass EXCEPT !.caches.cachedTasks =
                            ApplyCommands(@, CommandsAbout(drain.batch, SharedTaskIds),
                                          result.syncStatus)]
                   ELSE pass
            /\ UNCHANGED <<pendingCommands, nextUuid, window>>
            /\ UNCHANGED <<indexVars, cachedProjects, cachedSections, pluginVars,
                           changed, nRemoteEdits, nPasses>>

\* cleanup(), called by onunload
Cleanup ==
    /\ timer' = -1
    /\ pendingCommands' = <<>>
    /\ isProcessing' = FALSE
    /\ window' = <<>>
    /\ lastOp' = [op |-> "cleanup"]
    /\ UNCHANGED <<inFlight, nextUuid>>
    /\ UNCHANGED <<vaultVars, indexVars, snapshotVars, syncToken, pluginVars,
                   remoteVars, passVars>>

----------------------------------------------------------------------------
(* Specification of the Command Queue over a vault that is in sync *)

NoPass == [phase |-> "idle"]

SyncedRemote == [Remote0 EXCEPT !.issued = 1]

SyncedFiles ==
    LET A == baseFolderPath \o <<<<"A">>>>
        S == A \o <<<<"S">>>>
    IN  ((A \o <<MdName(<<"A">>)>>) :> ProjectFrontmatter(SyncedRemote.projects["p1"]))
        @@ ((S \o <<MdName(<<"S">>)>>) :>
                SectionFrontmatter(SyncedRemote.sections["s1"], SyncedRemote.projects["p1"]))
        @@ ((A \o <<MdName(<<"X">>)>>) :> TaskFrontmatter(SyncedRemote.tasks["t1"]))
        @@ ((S \o <<MdName(<<"Y">>)>>) :> TaskFrontmatter(SyncedRemote.tasks["t2"]))

PathOf(fs, id) == CHOOSE p \in DOMAIN fs : fs[p].todoist_id = id

InitQueue ==
    /\ files = SyncedFiles
    /\ folders = UNION {Prefixes(Front(p)) : p \in DOMAIN SyncedFiles}
    /\ projectFileCache = [id \in ProjectIds |-> PathOf(SyncedFiles, id)]
    /\ sectionFileCache = [id \in SectionIds |-> PathOf(SyncedFiles, id)]
    /\ taskFileCache = [id \in TaskIds |-> PathOf(SyncedFiles, id)]
    /\ cachedProjects = Values(SyncedRemote.projects)
    /\ cachedSections = Values(SyncedRemote.sections)
    /\ cachedTasks = Values(SyncedRemote.tasks)
    /\ syncToken = Token(1)
    /\ isSyncing = FALSE
    /\ isInitialLoad = FALSE
    /\ pendingCommands = <<>>
    /\ timer = -1
    /\ isProcessing = FALSE
    /\ inFlight = <<>>
    /\ nextUuid = 0
    /\ window = <<>>
    /\ remote = SyncedRemote
    /\ changed = {}
    /\ nRemoteEdits = 0
    /\ pass = NoPass
    /\ nPasses = 0
    /\ lastOp = NoOp

NextQueue ==
    \/ QueueCommand
    \/ Tick
    \/ TimerFire
    \/ ProcessNow
    \/ DispatchReturn
    \/ Cleanup

SpecQueue == InitQueue /\ [][NextQueue]_vars

\* the queue while the plugin stays loaded: no cleanup; timers run down and
\* fire, and the Remote Task Service answers every call
NextQueueLive ==
    \/ QueueCommand
    \/ Tick
    \/ TimerFire
    \/ ProcessNow
    \/ DispatchReturn

\* weak fairness of Tick, TimerFire and DispatchReturn; that of DispatchReturn
\* is written out with its enabling condition, a call being in flight
FairSpecQueue ==
    /\ InitQueue
    /\ [][NextQueueLive]_vars
    /\ WF_vars(Tick)
    /\ WF_vars(TimerFire)
    /\ ([]<>(inFlight = <<>>) \/ []<><<DispatchReturn>>_vars)

----------------------------------------------------------------------------
(* Claims about the Command Queue *)

Drains == {inFlight[i] : i \in 1..Len(inFlight)}

\* the commands of a sequence that are about one entity
ForId(commands, id) == SelectSeq(commands, LAMBDA c : commandKey(c) = id)

\* C1: debounce coalescing. When exactly two "update" intents for the same
\* entity id were enqueued in the window a drain dispatches, the batch holds
\* exactly one command for that entity, an update whose fields are the union
\* of the fields of both intents, with the second intent's value for a field
\* that both carry.
C1_UpdatesCoalesce ==
    \A d \in Drains : \A id \in TaskIds :
        LET intents == ForId(d.intents, id)
            sent == ForId(d.batch, id)
        IN  (/\ Len(intents) = 2
             /\ intents[1].type = "item_update"
             /\ intents[2].type = "item_update")
            => /\ Len(sent) = 1
               /\ sent[1].type = "item_update"
               /\ DOMAIN sent[1].args = DOMAIN intents[1].args \cup DOMAIN intents[2].args
               /\ \A f \in DOMAIN sent[1].args :
                      sent[1].args[f] = IF f \in DOMAIN intents[2].args
                                        THEN intents[2].args[f]
                                        ELSE intents[1].args[f]

\* a drain is dispatching the merge of two updates that overlap on "content"
\* and of which only the first carries "priority"
C1_Witness ==
    \E d \in Drains : \E id \in TaskIds :
        LET intents == ForId(d.intents, id)
        IN  /\ Len(intents) = 2
            /\ intents[1].type = "item_update"
            /\ intents[2].type = "item_update"
            /\ "priority" \in DOMAIN intents[1].args \ DOMAIN intents[2].args
            /\ intents[1].args.content # intents[2].args.content

\* C2: intent precedence. When a "complete" was enqueued onto a pending
\* "update" or "uncomplete" of the same entity, or an "uncomplete" onto a
\* pending "update", the batch that is dispatched holds for that entity only
\* the later command and not the earlier one.
C2_Precedence ==
    \A d \in Drains : \A id \in TaskIds :
        LET intents == ForId(d.intents, id)
            sent == ForId(d.batch, id)
        IN  (/\ Len(intents) = 2
             /\ \/ /\ intents[2].type = "item_complete"
                   /\ intents[1].type \in {"item_update", "item_uncomplete"}
                \/ /\ intents[2].type = "item_uncomplete"
                   /\ intents[1].type = "item_update")
            => sent = <<intents[2]>>

\* a drain is dispatching after a "complete" came onto a pending "update"
C2_Witness ==
    \E d \in Drains : \E id \in TaskIds :
        LET intents == ForId(d.intents, id)
        IN  /\ Len(intents) = 2
            /\ intents[2].type = "item_complete"
            /\ intents[1].type = "item_update"

\* C3: every enqueue restarts the one debounce timer at the full delay; and
\* when the timer fires with no drain in flight, every pending command leaves
\* the queue and is sent in exactly one dispatch call, and the answer to that
\* call starts no further call.
C3_TimerAndSingleDispatch ==
    [][/\ (nextUuid' # nextUuid) => (timer' = DEBOUNCE_DELAY)
       /\ (timer = 0 /\ lastOp'.op = "fire" /\ ~isProcessing /\ pendingCommands # <<>>)
          => /\ pendingCommands' = <<>>
             /\ Len(inFlight') = Len(inFlight) + 1
             /\ SubSeq(inFlight', 1, Len(inFlight)) = inFlight
             /\ Last(inFlight').batch = pendingCommands
       /\ (lastOp'.op = "return" /\ inFlight' # inFlight)
          => Len(inFlight') = Len(inFlight) - 1
      ]_vars

\* the timer has fired on two pending commands, which one call is now sending
C3_Witness ==
    /\ lastOp.op = "fire"
    /\ lastOp.started
    /\ Len(inFlight) = 1
    /\ Len(inFlight[1].batch) = 2
    /\ pendingCommands = <<>>

\* C4: no intent is lost because the queue is busy. While a drain is in
\* flight a pending command stays pending and a firing timer is re-armed
\* without touching the queue; a command leaves the queue only into the batch
\* of a drain that starts when no drain is in flight; and whatever is pending
\* during a drain eventually leaves the queue that way.
C4_PendingDuringDrainIsDispatched ==
    /\ [][/\ (isProcessing /\ inFlight # <<>> /\ lastOp'.op \in {"fire", "direct"})
             => /\ pendingCommands' = pendingCommands
                /\ inFlight' = inFlight
                /\ (timer = 0 /\ lastOp'.op = "fire") => (timer' = DEBOUNCE_DELAY)
          /\ \A id \in TaskIds :
                (PendingHas(pendingCommands, id) /\ ~PendingHas(pendingCommands', id))
                => /\ ~isProcessing
                   /\ Len(inFlight') = Len(inFlight) + 1
                   /\ Last(inFlight').batch = pendingCommands
         ]_vars
    /\ (isProcessing /\ inFlight # <<>> /\ pendingCommands # <<>>)
           ~> (pendingCommands = <<>>)

\* a command is pending during a drain and the timer, having fired, was re-armed
C4_Witness ==
    /\ isProcessing
    /\ inFlight # <<>>
    /\ pendingCommands # <<>>
    /\ lastOp.op = "fire"
    /\ ~lastOp.started
    /\ timer = DEBOUNCE_DELAY

\* the step in which a call of postTodoistCommands is answered
IsReturn == /\ lastOp'.op = "return"
            /\ inFlight' # inFlight

Accepted(result, command) ==
    result.ok /\ result.syncStatus[command.uuid] = "ok"

CachedTask(tasks, id) == tasks[FindById(tasks, id)]

\* C5: an intent the remote did not accept (the call failed, or the command
\* was rejected) leaves local state untouched: the task's document keeps its
\* path and its metadata, and the task's Identity Index entry and
\* SnapshotCache entry are as before; so for a "complete" intent too.
C5_NotAcceptedLeavesLocalUntouched ==
    [][IsReturn =>
        \A i \in 1..Len(lastOp'.drain.batch) :
            LET command == lastOp'.drain.batch[i]
                id == command.args.id
                path == taskFileCache[id]
            IN  (~Accepted(lastOp'.result, command) /\ Has(taskFileCache, id))
                => /\ Has(taskFileCache', id) /\ taskFileCache'[id] = path
                   /\ IsTFile(Vault, path)
                          => (path \in DOMAIN files' /\ files'[path] = files[path])
                   /\ FindById(cachedTasks, id) # 0
                          => CachedTask(cachedTasks', id) = CachedTask(cachedTasks, id)
      ]_vars

\* C6: rejection is isolated per command. In a batch of which the remote
\* accepts one command and rejects another, the accepted command is applied
\* to the SnapshotCache: an accepted "update" sets the fields it carries, an
\* accepted "complete" sets the completed flag.
C6_AcceptedAppliedInMixedBatch ==
    [][IsReturn =>
        \A i, j \in 1..Len(lastOp'.drain.batch) :
            LET command == lastOp'.drain.batch[i]
                other == lastOp'.drain.batch[j]
                id == command.args.id
            IN  (/\ Accepted(lastOp'.result, command)
                 /\ lastOp'.result.ok
                 /\ ~Accepted(lastOp'.result, other)
                 /\ FindById(cachedTasks, id) # 0)
                => /\ command.type = "item_complete"
                          => CachedTask(cachedTasks', id).is_completed
                   /\ command.type = "item_update"
                          => \A f \in DOMAIN command.args \ {"id"} :
                                 CachedTask(cachedTasks', id)[f] = command.args[f]
      ]_vars

\* C7: when the remote accepts a "complete" intent for a task that has a
\* document (here in a batch it accepts whole), afterwards the document is
\* under the Done root and not at its prior path, the task's SnapshotCache
\* entry is completed, and the Identity Index no longer contains the task.
C7_AcceptedCompleteIsFiledAndUnindexed ==
    [][IsReturn =>
        \A i \in 1..Len(lastOp'.drain.ops) :
            LET command == lastOp'.drain.ops[i].command
                id == command.args.id
                path == lastOp'.drain.ops[i].originalFile
            IN  (/\ allOk(lastOp'.result)
                 /\ command.type = "item_complete"
                 /\ IsTFile(Vault, path)
                 /\ FindById(cachedTasks, id) # 0)
                => /\ path \notin DOMAIN files'
                   /\ \E q \in DOMAIN files' :
                          /\ IsPrefix(doneFolderPath, q)
                          /\ files'[q].todoist_id = id
                   /\ CachedTask(cachedTasks', id).is_completed
                   /\ ~Has(taskFileCache', id)
      ]_vars

----------------------------------------------------------------------------
(* Reconciliation Engine: the operations a pass is made of *)

\* no file or folder (null)
NoPath == <<<<>>>>

\* a path as the string the code compares: its names joined by "/"
RECURSIVE PathString(_)
PathString(p) ==
    IF p = <<>> THEN <<>>
    ELSE IF Len(p) = 1 THEN p[1]
    ELSE p[1] \o <<"/">> \o PathString(Tail(p))

\* file.path.startsWith(settings.baseFolder + '/')
InBaseFolder(p) == Len(p) > 1 /\ p[1] = baseFolder

\* the documents populateAllCaches files under (type, id)
DocsOf(v, type, id) ==
    {p \in DOMAIN v.files :
        /\ InBaseFolder(p)
        /\ Get(v.files[p], "todoist_id") = id
        /\ Get(v.files[p], "type") = type}

\* one per-kind map populateAllCaches can build: of two documents with the
\* same id the one getMarkdownFiles lists last wins
PopulatedCache(v, type, ids) ==
    LET found == {id \in ids : DocsOf(v, type, id) # {}}
    IN  {f \in [found -> DOMAIN v.files] : \A id \in found : f[id] \in DocsOf(v, type, id)}

\* populateAllCaches: the Identity Index rebuilt from the tree
populateAllCaches(v) ==
    {[projectFileCache |-> pc, sectionFileCache |-> sc, taskFileCache |-> tc] :
        pc \in PopulatedCache(v, "project", ProjectIds),
        sc \in PopulatedCache(v, "section", SectionIds),
        tc \in PopulatedCache(v, "task", TaskIds)}

\* variant: a merge that appends the delta to the cache
mergeByIdAppends(cache, delta) == cache \o delta

\* mergeById: a delta item replaces the cached item of its id in place, a new
\* one goes to the end
RECURSIVE mergeById(_, _)
mergeById(cache, delta) ==
    IF delta = <<>> THEN cache
    ELSE LET deltaItem == Head(delta)
             i == FindById(cache, deltaItem.id)
         IN  mergeById(IF i = 0 THEN Append(cache, deltaItem)
                       ELSE [cache EXCEPT ![i] = deltaItem],
                       Tail(delta))

\* handleMove: the folder when there is one, else the file, goes under
\* destinationParentPath; every error is swallowed
handleMove(v, folderToMove, fileToMove, destinationParentPath) ==
    LET v1 == EnsureFolder(v, destinationParentPath)
    IN  IF folderToMove # NoPath
        THEN LET destinationPath ==
                     normalizePath(destinationParentPath \o <<Last(folderToMove)>>)
             IN  IF \/ IsPrefix(PathString(folderToMove), PathString(destinationPath))
                    \/ destinationPath = folderToMove
                 THEN IF folderToMove # baseFolderPath THEN trash(v1, folderToMove) ELSE v1
                 ELSE IF Exists(v1, destinationPath) THEN v1
                 ELSE IF CanRename(v1, folderToMove, destinationPath)
                 THEN renameFile(v1, folderToMove, destinationPath)
                 ELSE IF folderToMove # baseFolderPath THEN trash(v1, folderToMove) ELSE v1
        ELSE IF fileToMove # NoPath
        THEN LET destinationPath ==
                     normalizePath(destinationParentPath \o <<Last(fileToMove)>>)
             IN  IF IsTFolder(v1, destinationPath) THEN v1
                 ELSE IF CanRename(v1, fileToMove, destinationPath)
                 THEN renameFile(v1, fileToMove, destinationPath)
                 ELSE v1
        ELSE v1

\* the deleted / archived branch of the project and section loops: the item
\* the Index points at is flagged and handed to handleMove
relocateByCache(v, cachedPath, destinationParentPath, flag) ==
    IF cachedPath = Null THEN v
    ELSE IF IsTFile(v, cachedPath)
    THEN handleMove(processFrontMatter(v, cachedPath, flag),
                    Front(cachedPath), cachedPath, destinationParentPath)
    ELSE IF IsTFolder(v, cachedPath)
    THEN LET potentialIndexPath ==
                 normalizePath(cachedPath \o <<MdName(Last(cachedPath))>>)
         IN  IF IsTFile(v, potentialIndexPath)
             THEN handleMove(processFrontMatter(v, potentialIndexPath, flag),
                             cachedPath, potentialIndexPath, destinationParentPath)
             ELSE handleMove(v, cachedPath, NoPath, destinationParentPath)
    ELSE v

\* trashOrArchiveFileById's effect on the vault (it always drops the Index entry)
trashOrArchiveFileById(v, type, filePath) ==
    IF IsTFile(v, filePath)
    THEN IF type = "task" /\ Has(v.files[filePath], "completed")
                           /\ v.files[filePath].completed
         THEN moveFileToCustomLocation(v, filePath, doneFolderPath)
         ELSE trash(v, filePath)
    ELSE IF IsTFolder(v, filePath) /\ type \in {"project", "section"}
    THEN IF Children(v, filePath) = {} THEN trash(v, filePath) ELSE v
    ELSE v

----------------------------------------------------------------------------
(* Reconciliation Engine: one entity of the payload.  w is what the pass    *)
(* works on: the vault v, the three maps of the Identity Index and          *)
(* syncErrorOccurred.                                                       *)

\* the active branch shared by the three loops once the folder is there: the
\* document found through the Index, else at the expected path, is renamed to
\* the expected path and rewritten; with none, it is created
placeActive(w, v, cache, id, expectedPath, frontmatter, nameOk) ==
    LET currentCachedPath == Get(w[cache], id)
        \* a task whose Index entry is stale is not looked up at the expected path
        abstractFile ==
            IF currentCachedPath # Null /\ Exists(v, currentCachedPath)
            THEN currentCachedPath
            ELSE IF currentCachedPath # Null /\ cache = "taskFileCache" THEN NoPath
            ELSE IF Exists(v, expectedPath) THEN expectedPath ELSE NoPath
        written(v2) ==
            [w EXCEPT !.v = processFrontMatter(v2, expectedPath, frontmatter),
                      ![cache] = MapSet(@, id, expectedPath)]
        thrown == [w EXCEPT !.v = v, !.err = TRUE]
    IN  IF IsTFile(v, abstractFile)
        THEN IF abstractFile = expectedPath THEN written(v)
             ELSE IF CanRename(v, abstractFile, expectedPath)
             THEN written(renameFile(v, abstractFile, expectedPath))
             ELSE thrown
        ELSE IF abstractFile = NoPath /\ ~nameOk THEN [w EXCEPT !.v = v]
        ELSE IF CanCreate(v, expectedPath)
        THEN written(create(v, expectedPath, Empty))
        ELSE thrown

\* a project loop that looks at the archived flag before the deleted flag
processProjectArchivedFirst(w, project, isFullSync, idsInDelta) ==
    LET id == project.id
        cachedProjectPath == Get(w.projectFileCache, id)
        inPayload == isFullSync \/ id \in idsInDelta
    IN  IF project.is_archived /\ inPayload
        THEN [w EXCEPT
                 !.v = relocateByCache(@, cachedProjectPath, archiveFolderPath,
                                       [is_archived |-> TRUE]),
                 !.projectFileCache = MapDelete(@, id)]
        ELSE IF project.is_deleted /\ inPayload
        THEN [w EXCEPT
                 !.v = relocateByCache(@, cachedProjectPath, trashFolderPath,
                                       [is_deleted |-> TRUE]),
                 !.projectFileCache = MapDelete(@, id)]
        ELSE w

\* one iteration of the project loop
processProject(w, project, isFullSync, idsInDelta) ==
    LET id == project.id
        sanitizedProjectName == sanitizeName(project.name)
        expectedProjectFolderPath == normalizePath(baseFolderPath \o <<sanitizedProjectName>>)
        expectedProjectFilePath ==
            normalizePath(expectedProjectFolderPath \o <<MdName(sanitizedProjectName)>>)
        cachedProjectPath == Get(w.projectFileCache, id)
        inPayload == isFullSync \/ id \in idsInDelta
    IN  IF project.is_deleted /\ inPayload
        THEN [w EXCEPT
                 !.v = relocateByCache(@, cachedProjectPath, trashFolderPath,
                                       [is_deleted |-> TRUE]),
                 !.projectFileCache = MapDelete(@, id)]
        ELSE IF project.is_archived /\ inPayload
        THEN [w EXCEPT
                 !.v = relocateByCache(@, cachedProjectPath, archiveFolderPath,
                                       [is_archived |-> TRUE]),
                 !.projectFileCache = MapDelete(@, id)]
        ELSE IF ~IsTFolder(w.v, expectedProjectFolderPath) /\ sanitizedProjectName = <<>>
        THEN w
        ELSE placeActive(w, createFolder(w.v, expectedProjectFolderPath),
                         "projectFileCache", id, expectedProjectFilePath,
                         ProjectFrontmatter(project), sanitizedProjectName # <<>>)

\* projectMap.get(id) / sectionMap.get(id): 0 when there is none
Lookup(items, id) == IF id = Null THEN 0 ELSE FindById(items, id)

\* a parent that is there and neither deleted nor archived
LiveAt(items, i) == i # 0 /\ ~items[i].is_deleted /\ ~items[i].is_archived

\* one iteration of the section loop
processSection(w, section, isFullSync, idsInDelta, lookupProjectsApi) ==
    LET id == section.id
        cachedSectionPath == Get(w.sectionFileCache, id)
        inPayload == isFullSync \/ id \in idsInDelta
        pi == Lookup(lookupProjectsApi, section.project_id)
        parentProject == lookupProjectsApi[pi]
        sanitizedProjectName == sanitizeName(parentProject.name)
        sanitizedSectionName == sanitizeName(section.name)
        expectedSectionFolderPath ==
            normalizePath(baseFolderPath \o <<sanitizedProjectName, sanitizedSectionName>>)
        expectedSectionFilePath ==
            normalizePath(expectedSectionFolderPath \o <<MdName(sanitizedSectionName)>>)
    IN  IF section.is_deleted /\ inPayload
        THEN [w EXCEPT
                 !.v = relocateByCache(@, cachedSectionPath, trashFolderPath,
                                       [is_deleted |-> TRUE]),
                 !.sectionFileCache = MapDelete(@, id)]
        ELSE IF section.is_archived /\ inPayload
        THEN [w EXCEPT
                 !.v = relocateByCache(@, cachedSectionPath, archiveFolderPath,
                                       [is_archived |-> TRUE]),
                 !.sectionFileCache = MapDelete(@, id)]
        ELSE IF ~LiveAt(lookupProjectsApi, pi)
        THEN [w EXCEPT !.sectionFileCache = MapDelete(@, id)]
        ELSE IF ~IsTFolder(w.v, normalizePath(baseFolderPath \o <<sanitizedProjectName>>))
        THEN w
        ELSE placeActive(w, createFolder(w.v, expectedSectionFolderPath),
                         "sectionFileCache", id, expectedSectionFilePath,
                         SectionFrontmatter(section, parentProject), TRUE)

\* a task loop that only drops the task from the Index
processTaskUnindexesOnly(w, task, lookupProjectsApi, lookupSectionsApi) ==
    [w EXCEPT !.taskFileCache = MapDelete(@, task.id)]

\* one task of tasksToProcess
processTask(w, task, lookupProjectsApi, lookupSectionsApi) ==
    LET id == task.id
        pi == Lookup(lookupProjectsApi, task.project_id)
        si == Lookup(lookupSectionsApi, task.section_id)
        projectFolder ==
            normalizePath(baseFolderPath \o <<sanitizeName(lookupProjectsApi[pi].name)>>)
        parentFolderPath ==
            IF ~LiveAt(lookupProjectsApi, pi) THEN baseFolderPath
            ELSE IF LiveAt(lookupSectionsApi, si)
            THEN normalizePath(projectFolder \o <<sanitizeName(lookupSectionsApi[si].name)>>)
            ELSE projectFolder
        taskFilePath ==
            normalizePath(parentFolderPath \o <<MdName(sanitizeName(task.content))>>)
        cachedTaskPath == Get(w.taskFileCache, id)
        hasFile == cachedTaskPath # Null /\ IsTFile(w.v, cachedTaskPath)
        unindexed == [w EXCEPT !.taskFileCache = MapDelete(@, id)]
    IN  IF task.is_deleted
        THEN IF ~hasFile THEN unindexed
             ELSE LET v1 == processFrontMatter(w.v, cachedTaskPath, [is_deleted |-> TRUE])
                  IN  IF MoveThrows(v1, cachedTaskPath, trashFolderPath)
                      THEN [w EXCEPT !.v = EnsureFolder(v1, trashFolderPath)]
                      ELSE [unindexed EXCEPT
                               !.v = moveFileToCustomLocation(v1, cachedTaskPath,
                                                              trashFolderPath)]
        ELSE IF task.completed_at # Null
        THEN IF ~hasFile THEN unindexed
             ELSE LET v1 == processFrontMatter(w.v, cachedTaskPath, TaskFrontmatter(task))
                  IN  IF MoveThrows(v1, cachedTaskPath, doneFolderPath)
                      THEN [w EXCEPT !.v = EnsureFolder(v1, doneFolderPath), !.err = TRUE]
                      ELSE [unindexed EXCEPT
                               !.v = moveFileToCustomLocation(v1, cachedTaskPath,
                                                              doneFolderPath)]
        ELSE placeActive(w, createFolder(w.v, parentFolderPath),
                         "taskFileCache", id, taskFilePath, TaskFrontmatter(task), TRUE)

----------------------------------------------------------------------------
(* Reconciliation Engine: the loops *)

RECURSIVE processProjects(_, _, _, _)
processProjects(w, projectsToIterate, isFullSync, idsInDelta) ==
    IF projectsToIterate = <<>> THEN w
    ELSE processProjects(processProject(w, Head(projectsToIterate), isFullSync, idsInDelta),
                         Tail(projectsToIterate), isFullSync, idsInDelta)

RECURSIVE processSections(_, _, _, _, _)
processSections(w, sectionsToIterate, isFullSync, idsInDelta, lookupProjectsApi) ==
    IF sectionsToIterate = <<>> THEN w
    ELSE processSections(
             processSection(w, Head(sectionsToIterate), isFullSync, idsInDelta,
                            lookupProjectsApi),
             Tail(sectionsToIterate), isFullSync, idsInDelta, lookupProjectsApi)

RECURSIVE processTasks(_, _, _, _)
processTasks(w, tasksToProcess, lookupProjectsApi, lookupSectionsApi) ==
    IF tasksToProcess = <<>> THEN w
    ELSE processTasks(
             processTask(w, Head(tasksToProcess), lookupProjectsApi, lookupSectionsApi),
             Tail(tasksToProcess), lookupProjectsApi, lookupSectionsApi)

\* the ids of a payload or of a cached array
IdsOf(items) == {items[i].id : i \in 1..Len(items)}

\* the cleanup of one kind: every Index entry whose id the full payload lacks
RECURSIVE cleanupKind(_, _, _, _, _)
cleanupKind(w, cache, type, ids, fetchedIds) ==
    IF ids = <<>> THEN w
    ELSE LET id == Head(ids)
             swept ==
                 IF Has(w[cache], id) /\ id \notin fetchedIds
                 THEN [w EXCEPT !.v = trashOrArchiveFileById(@, type, w[cache][id]),
                                ![cache] = MapDelete(@, id)]
                 ELSE w
         IN  cleanupKind(swept, cache, type, Tail(ids), fetchedIds)

\* the cleanup phase of a full pass
cleanupPhase(w, projects, sections, tasks) ==
    LET w1 == cleanupKind(w, "projectFileCache", "project",
                          SeqOfSet(DOMAIN w.projectFileCache), IdsOf(projects))
        w2 == cleanupKind(w1, "sectionFileCache", "section",
                          SeqOfSet(DOMAIN w1.sectionFileCache), IdsOf(sections))
    IN  cleanupKind(w2, "taskFileCache", "task",
                    SeqOfSet(DOMAIN w2.taskFileCache), IdsOf(tasks))

\* settings.apiKey
apiKey == "key"

\* what fetchTodoistData gets: everything when the token sent is "*" (a full
\* sync, or no stored token), else what changed since the stored token
fetchTodoistData(isFullSync) ==
    LET all == isFullSync \/ syncToken = ""
        pick(f) == Values([id \in {x \in DOMAIN f : all \/ x \in changed} |-> f[id]])
    IN  [projects |-> pick(remote.projects),
         sections |-> pick(remote.sections),
         tasks |-> pick(remote.tasks)]

\* what the pass works on
World ==
    [v |-> Vault, projectFileCache |-> projectFileCache,
     sectionFileCache |-> sectionFileCache, taskFileCache |-> taskFileCache,
     err |-> pass.err]

\* the tree, Index, SnapshotCache and cursor as they are
Snapshot ==
    [files |-> files, folders |-> folders,
     projectFileCache |-> projectFileCache, sectionFileCache |-> sectionFileCache,
     taskFileCache |-> taskFileCache, cachedProjects |-> cachedProjects,
     cachedSections |-> cachedSections, cachedTasks |-> cachedTasks,
     syncToken |-> syncToken]

\* the pass writes w back
Store(w) ==
    /\ files' = w.v.files
    /\ folders' = w.v.folders
    /\ projectFileCache' = w.projectFileCache
    /\ sectionFileCache' = w.sectionFileCache
    /\ taskFileCache' = w.taskFileCache

----------------------------------------------------------------------------
(* The Remote Task Service changes, the user renames, the plugin reloads *)

\* the entities of m with an id in ids get the fields of change
Mark(m, ids, change) ==
    [id \in DOMAIN m |-> IF id \in ids THEN Spread(m[id], change) ELSE m[id]]

\* m without the entities with an id in ids
Without(m, ids) == [id \in (DOMAIN m) \ ids |-> m[id]]

\* the changes made on the service's side, one at a time
RemoteEdits(r) ==
    {[kind |-> k, id |-> id] :
        k \in {"completeTask", "deleteTask", "purgeTask", "renameTask"},
        id \in DOMAIN r.tasks}
    \cup {[kind |-> k, id |-> id] :
        k \in {"deleteSection", "archiveSection", "purgeSection"},
        id \in DOMAIN r.sections}
    \cup {[kind |-> k, id |-> id] :
        k \in {"deleteProject", "archiveProject", "renameProject"},
        id \in DOMAIN r.projects}

\* the service after the edit: deleting or archiving a project or a section
\* takes what it holds along
ApplyEdit(r, edit) ==
    LET it == {edit.id}
        inProject(m) == {id \in DOMAIN m : m[id].project_id = edit.id}
        inSection(m) == {id \in DOMAIN m : m[id].section_id = edit.id}
        deleted == [is_deleted |-> TRUE]
        archived == [is_archived |-> TRUE]
    IN  CASE edit.kind = "completeTask" ->
                [r EXCEPT !.tasks = Mark(@, it, [completed_at |-> Now, is_completed |-> TRUE])]
          [] edit.kind = "deleteTask" -> [r EXCEPT !.tasks = Mark(@, it, deleted)]
          [] edit.kind = "purgeTask" -> [r EXCEPT !.tasks = Without(@, it)]
          [] edit.kind = "renameTask" -> [r EXCEPT !.tasks = Mark(@, it, [content |-> <<"Z">>])]
          [] edit.kind = "deleteSection" ->
                [r EXCEPT !.sections = Mark(@, it, deleted),
                          !.tasks = Mark(@, inSection(@), deleted)]
          [] edit.kind = "archiveSection" -> [r EXCEPT !.sections = Mark(@, it, archived)]
          [] edit.kind = "purgeSection" ->
                [r EXCEPT !.sections = Without(@, it), !.tasks = Without(@, inSection(@))]
          [] edit.kind = "deleteProject" ->
                [r EXCEPT !.projects = Mark(@, it, deleted),
                          !.sections = Mark(@, inProject(@), deleted),
                          !.tasks = Mark(@, inProject(@), deleted)]
          [] edit.kind = "archiveProject" ->
                [r EXCEPT !.projects = Mark(@, it, archived),
                          !.sections = Mark(@, inProject(@), archived)]
          [] edit.kind = "renameProject" ->
                [r EXCEPT !.projects = Mark(@, it, [name |-> <<"B">>])]

\* the ids the edit touches
Touched(r, edit) ==
    {edit.id}
    \cup {id \in DOMAIN r.sections :
            edit.kind \in {"deleteProject", "archiveProject"}
            /\ r.sections[id].project_id = edit.id}
    \cup {id \in DOMAIN r.tasks :
            \/ edit.kind = "deleteProject" /\ r.tasks[id].project_id = edit.id
            \/ edit.kind \in {"deleteSection", "purgeSection"}
               /\ r.tasks[id].section_id = edit.id}

\* somebody changes the account on the service's side (a change made while a
\* pass runs is seen like one made just before or just after it)
RemoteEdit ==
    /\ nRemoteEdits < MaxRemoteEdits
    /\ pass.phase = "idle"
    /\ \E edit \in RemoteEdits(remote) :
        /\ ApplyEdit(remote, edit) # remote
        /\ remote' = ApplyEdit(remote, edit)
        /\ changed' = changed \cup Touched(remote, edit)
        /\ lastOp' = [op |-> "remoteEdit", edit |-> edit]
    /\ nRemoteEdits' = nRemoteEdits + 1
    /\ UNCHANGED <<vaultVars, indexVars, snapshotVars, syncToken, pluginVars,
                   queueVars, passVars>>

\* the name the user gives a document
UserName == <<"W">>

\* the user renames a task's document in the file explorer (the plugin
\* registers no handler for vault renames)
LocalRename ==
    /\ pass.phase = "idle"
    /\ \E file \in DOMAIN files :
        LET to == Front(file) \o <<MdName(UserName)>>
        IN  /\ InBaseFolder(file)
            /\ Get(files[file], "type") = "task"
            /\ CanRename(Vault, file, to)
            /\ files' = renameFile(Vault, file, to).files
            /\ lastOp' = [op |-> "localRename", file |-> file]
    /\ UNCHANGED <<folders, indexVars, snapshotVars, syncToken, pluginVars,
                   queueVars, remoteVars, passVars>>

\* the plugin is loaded again (onunload, then onload): loadSettings resets
\* the caches and isInitialLoad, onload rebuilds the Index from the tree
Reload ==
    /\ pass.phase = "idle"
    /\ inFlight = <<>>
    /\ \E index \in populateAllCaches(Vault) :
        /\ projectFileCache' = index.projectFileCache
        /\ sectionFileCache' = index.sectionFileCache
        /\ taskFileCache' = index.taskFileCache
    /\ cachedProjects' = <<>>
    /\ cachedSections' = <<>>
    /\ cachedTasks' = <<>>
    /\ isInitialLoad' = TRUE
    /\ isSyncing' = FALSE
    /\ pendingCommands' = <<>>
    /\ timer' = -1
    /\ isProcessing' = FALSE
    /\ window' = <<>>
    /\ lastOp' = [op |-> "reload"]
    /\ UNCHANGED <<vaultVars, syncToken, inFlight, nextUuid, remoteVars, passVars>>

----------------------------------------------------------------------------
(* Reconciliation Engine: a pass of syncOrFullSyncTasks, from the command   *)
(* callback that starts it to the assignments that end it                   *)

\* a callback with no finally: the result is taken over, the flag stays up
EndPassKeepsFlag(fetched, newIsInitialLoad, caches) ==
    /\ cachedProjects' = caches.cachedProjects
    /\ cachedSections' = caches.cachedSections
    /\ cachedTasks' = caches.cachedTasks
    /\ isInitialLoad' = newIsInitialLoad
    /\ isSyncing' = isSyncing
    /\ pass' = NoPass
    /\ lastOp' = [op |-> "passEnd", fetched |-> fetched, isFullSync |-> pass.isFullSync,
                  escalated |-> pass.escalated, rerun |-> pass.rerun, pre |-> pass.pre,
                  failed |-> ~fetched \/ pass.err]

\* the pass ends: the callback takes the result over and clears isSyncing
EndPass(fetched, newIsInitialLoad, caches) ==
    /\ cachedProjects' = caches.cachedProjects
    /\ cachedSections' = caches.cachedSections
    /\ cachedTasks' = caches.cachedTasks
    /\ isInitialLoad' = newIsInitialLoad
    /\ isSyncing' = FALSE
    /\ pass' = NoPass
    /\ lastOp' = [op |-> "passEnd", fetched |-> fetched, isFullSync |-> pass.isFullSync,
                  escalated |-> pass.escalated, rerun |-> pass.rerun, pre |-> pass.pre,
                  \* the status bar is left at 'Todoist Sync: Error'
                  failed |-> ~fetched \/ pass.err]

\* variant: the sync commands with no check of the Index, the pass is carried
\* out as it was requested
SyncStartAsRequested(isFullSync) ==
    /\ ~isSyncing
    /\ pass.phase = "idle"
    /\ apiKey # ""
    /\ nPasses < MaxPasses
    /\ nPasses' = nPasses + 1
    /\ isSyncing' = TRUE
    /\ pass' = [phase |-> "fetch",
                isFullSync |-> isFullSync,
                escalated |-> FALSE,
                isInitialLoad |-> isInitialLoad,
                newIsInitialLoad |-> isInitialLoad,
                caches |-> [cachedProjects |-> cachedProjects,
                            cachedSections |-> cachedSections,
                            cachedTasks |-> cachedTasks],
                fetchedData |-> [projects |-> <<>>, sections |-> <<>>, tasks |-> <<>>],
                err |-> FALSE,
                rerun |-> /\ isFullSync
                          /\ lastOp.op = "passEnd"
                          /\ lastOp.fetched
                          /\ lastOp.isFullSync,
                pre |-> Snapshot]
    /\ lastOp' = [op |-> "syncStart", isFullSync |-> isFullSync]
    /\ UNCHANGED <<vaultVars, indexVars, snapshotVars, syncToken, isInitialLoad,
                   queueVars, remoteVars>>

\* the sync commands, up to the await of fetchTodoistData
SyncStart(isFullSync) ==
    LET escalate ==
            /\ ~isFullSync
            /\ isInitialLoad
            /\ (projectFileCache = Empty \/ sectionFileCache = Empty \/ taskFileCache = Empty)
    IN  /\ ~isSyncing
        /\ pass.phase = "idle"
        /\ apiKey # ""
        /\ nPasses < MaxPasses
        /\ nPasses' = nPasses + 1
        /\ isSyncing' = TRUE
        /\ IF escalate
           THEN \E index \in populateAllCaches(Vault) :
                    /\ projectFileCache' = index.projectFileCache
                    /\ sectionFileCache' = index.sectionFileCache
                    /\ taskFileCache' = index.taskFileCache
           ELSE UNCHANGED indexVars
        /\ pass' = [phase |-> "fetch",
                    isFullSync |-> (isFullSync \/ escalate),
                    escalated |-> escalate,
                    isInitialLoad |-> isInitialLoad,
                    newIsInitialLoad |-> isInitialLoad,
                    caches |-> [cachedProjects |-> cachedProjects,
                                cachedSections |-> cachedSections,
                                cachedTasks |-> cachedTasks],
                    fetchedData |-> [projects |-> <<>>, sections |-> <<>>, tasks |-> <<>>],
                    err |-> FALSE,
                    rerun |-> /\ (isFullSync \/ escalate)
                              /\ lastOp.op = "passEnd"
                              /\ lastOp.fetched
                              /\ lastOp.isFullSync,
                    pre |-> Snapshot]
        /\ lastOp' = [op |-> "syncStart", isFullSync |-> isFullSync]
        /\ UNCHANGED <<vaultVars, snapshotVars, syncToken, isInitialLoad, queueVars,
                       remoteVars>>

\* fetchTodoistData throws or returns null
FetchFail ==
    /\ pass.phase = "fetch"
    /\ EndPass(FALSE, pass.isInitialLoad, pass.caches)
    /\ UNCHANGED <<vaultVars, indexVars, syncToken, queueVars, remoteVars, nPasses>>

\* fetchTodoistData returns the payload (the new token is stored): the merge
\* into the SnapshotCache, and the base folder
FetchOk ==
    LET fetchedData == fetchTodoistData(pass.isFullSync)
        caches ==
            IF pass.isFullSync
            THEN [cachedProjects |-> fetchedData.projects,
                  cachedSections |-> fetchedData.sections,
                  cachedTasks |-> fetchedData.tasks]
            ELSE [cachedProjects |-> mergeById(pass.caches.cachedProjects, fetchedData.projects),
                  cachedSections |-> mergeById(pass.caches.cachedSections, fetchedData.sections),
                  cachedTasks |-> mergeById(pass.caches.cachedTasks, fetchedData.tasks)]
        anyFetched ==
            fetchedData.projects # <<>> \/ fetchedData.sections # <<>>
            \/ fetchedData.tasks # <<>>
        v == EnsureFolder(Vault, baseFolderPath)
    IN  /\ pass.phase = "fetch"
        /\ syncToken' = Token(remote.issued + 1)
        /\ remote' = [remote EXCEPT !.issued = @ + 1]
        /\ changed' = {}
        /\ IF pass.isFullSync
           THEN \E index \in populateAllCaches(Vault) :
                    /\ projectFileCache' = index.projectFileCache
                    /\ sectionFileCache' = index.sectionFileCache
                    /\ taskFileCache' = index.taskFileCache
           ELSE UNCHANGED indexVars
        /\ files' = v.files
        /\ folders' = v.folders
        /\ pass' = [pass EXCEPT
                       !.phase = "projects",
                       !.caches = caches,
                       !.fetchedData = fetchedData,
                       !.rerun = @ /\ changed = {},
                       !.newIsInitialLoad = IF pass.isFullSync \/ anyFetched THEN FALSE ELSE @]
        /\ lastOp' = [op |-> "fetchOk", fetchedData |-> fetchedData]
        /\ UNCHANGED <<snapshotVars, pluginVars, queueVars, nRemoteEdits, nPasses>>

\* the project loop
ProcessProjects ==
    LET w == processProjects(World,
                 IF pass.isFullSync THEN pass.caches.cachedProjects
                 ELSE pass.fetchedData.projects,
                 pass.isFullSync, IdsOf(pass.fetchedData.projects))
    IN  /\ pass.phase = "projects"
        /\ Store(w)
        /\ pass' = [pass EXCEPT !.phase = "sections", !.err = w.err]
        /\ lastOp' = [op |-> "projects"]
        /\ UNCHANGED <<snapshotVars, syncToken, pluginVars, queueVars, remoteVars, nPasses>>

\* the section loop
ProcessSections ==
    LET w == processSections(World,
                 IF pass.isFullSync THEN pass.caches.cachedSections
                 ELSE pass.fetchedData.sections,
                 pass.isFullSync, IdsOf(pass.fetchedData.sections),
                 pass.caches.cachedProjects)
    IN  /\ pass.phase = "sections"
        /\ Store(w)
        /\ pass' = [pass EXCEPT !.phase = "tasks", !.err = w.err]
        /\ lastOp' = [op |-> "sections"]
        /\ UNCHANGED <<snapshotVars, syncToken, pluginVars, queueVars, remoteVars, nPasses>>

\* variant: a task loop that does not wait for the project and section loops
ProcessTasksEarly ==
    LET w == processTasks(World, pass.fetchedData.tasks,
                          pass.caches.cachedProjects, pass.caches.cachedSections)
    IN  /\ pass.phase \in {"projects", "sections", "tasks"}
        /\ Store(w)
        /\ pass' = [pass EXCEPT !.phase = "cleanup", !.err = w.err]
        /\ lastOp' = [op |-> "tasks"]
        /\ UNCHANGED <<snapshotVars, syncToken, pluginVars, queueVars, remoteVars, nPasses>>

\* the task loop
ProcessTasks ==
    LET w == processTasks(World, pass.fetchedData.tasks,
                          pass.caches.cachedProjects, pass.caches.cachedSections)
    IN  /\ pass.phase = "tasks"
        /\ Store(w)
        /\ pass' = [pass EXCEPT !.phase = "cleanup", !.err = w.err]
        /\ lastOp' = [op |-> "tasks"]
        /\ UNCHANGED <<snapshotVars, syncToken, pluginVars, queueVars, remoteVars, nPasses>>

\* the cleanup phase of a full pass, and the return to the callback
Finish ==
    LET w == IF pass.isFullSync
             THEN cleanupPhase(World, pass.caches.cachedProjects,
                               pass.caches.cachedSections, pass.caches.cachedTasks)
             ELSE World
    IN  /\ pass.phase = "cleanup"
        /\ Store(w)
        /\ EndPass(TRUE, pass.newIsInitialLoad, pass.caches)
        /\ UNCHANGED <<syncToken, queueVars, remoteVars, nPasses>>

----------------------------------------------------------------------------
(* Specification of the Reconciliation Engine: a vault that is fresh or in  *)
(* sync, an account that changes, a user who renames documents and reloads  *)
(* the plugin                                                               *)

\* the plugin just installed: nothing in the vault, nothing stored
InitFresh ==
    /\ files = Empty
    /\ folders = {<<>>}
    /\ projectFileCache = Empty
    /\ sectionFileCache = Empty
    /\ taskFileCache = Empty
    /\ cachedProjects = <<>>
    /\ cachedSections = <<>>
    /\ cachedTasks = <<>>
    /\ syncToken = ""
    /\ isSyncing = FALSE
    /\ isInitialLoad = TRUE
    /\ pendingCommands = <<>>
    /\ timer = -1
    /\ isProcessing = FALSE
    /\ inFlight = <<>>
    /\ nextUuid = 0
    /\ window = <<>>
    /\ remote = Remote0
    /\ changed = {}
    /\ nRemoteEdits = 0
    /\ pass = NoPass
    /\ nPasses = 0
    /\ lastOp = NoOp

\* InitQueue is the state the first full pass over a fresh vault ends in
InitSync == InitFresh \/ InitQueue

NextSync ==
    \/ \E isFullSync \in BOOLEAN : SyncStart(isFullSync)
    \/ FetchFail
    \/ FetchOk
    \/ ProcessProjects
    \/ ProcessSections
    \/ ProcessTasks
    \/ Finish
    \/ RemoteEdit
    \/ LocalRename
    \/ Reload

SpecSync == InitSync /\ [][NextSync]_vars

----------------------------------------------------------------------------
(* Claims about the Reconciliation Engine *)

\* a pass has just ended
PassEnded == lastOp.op = "passEnd"

\* C8: a pass whose fetch fails, an incremental pass that escalated to full
\* included, changes nothing: the Identity Index, the SnapshotCache, the
\* persisted SyncCursor and the tree are after the pass what they were before it
C8_FailedFetchChangesNothing ==
    (PassEnded /\ ~lastOp.fetched) => Snapshot = lastOp.pre

\* Active: not deleted, not archived, and a task not completed either
ActiveContainer(e) == ~e.is_deleted /\ ~e.is_archived

ActiveTask(e) == ~e.is_deleted /\ e.completed_at = Null

\* the bucket root an entity that is not Active belongs under
BucketOf(e) ==
    IF e.is_deleted THEN trashFolderPath
    ELSE IF Has(e, "is_archived") /\ e.is_archived THEN archiveFolderPath
    ELSE doneFolderPath

\* after a full pass an entity of the SnapshotCache is in the Index exactly
\* when it is Active, and one that is not, and had a document before the
\* pass, has its document under its bucket root
Filed(e, type, active, cache) ==
    /\ Has(cache, e.id) <=> active
    /\ (~active /\ DocsOf([files |-> lastOp.pre.files], type, e.id) # {})
        => \E p \in DocsOf(Vault, type, e.id) : IsPrefix(BucketOf(e), p)

\* C9: when a full pass has finished, the Identity Index holds an entity of
\* the SnapshotCache if and only if the entity is Active there, and every
\* other entity that had a document has it relocated to its bucket
C9_FullPassIndexesExactlyTheActive ==
    (PassEnded /\ lastOp.fetched /\ lastOp.isFullSync) =>
        /\ \A i \in 1..Len(cachedProjects) :
               Filed(cachedProjects[i], "project",
                     ActiveContainer(cachedProjects[i]), projectFileCache)
        /\ \A i \in 1..Len(cachedSections) :
               Filed(cachedSections[i], "section",
                     ActiveContainer(cachedSections[i]), sectionFileCache)
        /\ \A i \in 1..Len(cachedTasks) :
               Filed(cachedTasks[i], "task", ActiveTask(cachedTasks[i]), taskFileCache)

\* C10: a full pass run right after a full pass, the account unchanged and
\* nothing edited locally in between, mutates nothing in the tree (documents
\* in Done, Archive and Trash included) and ends with the Identity Index and
\* the SnapshotCache as the first run left them
C10_SecondFullPassIsIdle ==
    [][(pass.phase \notin {"idle", "fetch"} /\ pass.rerun)
       => /\ files' = files
          /\ folders' = folders
          /\ pass'.phase = "idle" =>
                /\ projectFileCache' = pass.pre.projectFileCache
                /\ sectionFileCache' = pass.pre.sectionFileCache
                /\ taskFileCache' = pass.pre.taskFileCache
                /\ cachedProjects' = pass.pre.cachedProjects
                /\ cachedSections' = pass.pre.cachedSections
                /\ cachedTasks' = pass.pre.cachedTasks
      ]_vars

----------------------------------------------------------------------------
(* Reconciliation Engine with rename detection: the variant of              *)
(* syncOrFullSyncTasks whose project and section loops look for a renamed   *)
(* folder first and cascade the new prefix through the Identity Index       *)

\* the replacement string of String.prototype.replace: "$$" inserts one "$"
RECURSIVE ExpandReplacement(_)
ExpandReplacement(s) ==
    IF s = <<>> THEN <<>>
    ELSE IF Len(s) >= 2 /\ s[1] = "$" /\ s[2] = "$"
    THEN <<"$">> \o ExpandReplacement(SubSeq(s, 3, Len(s)))
    ELSE <<Head(s)>> \o ExpandReplacement(Tail(s))

\* path.startsWith(oldFolderPath + "/")
StartsWithFolder(path, oldFolderPath) ==
    IsPrefix(oldFolderPath, path) /\ Len(path) > Len(oldFolderPath)

\* path.replace(oldFolderPath, expectedFolderPath) of a path that starts with
\* oldFolderPath + "/": the first occurrence is the prefix
replacePrefix(path, oldFolderPath, expectedFolderPath) ==
    [i \in 1..Len(expectedFolderPath) |-> ExpandReplacement(expectedFolderPath[i])]
    \o SubSeq(path, Len(oldFolderPath) + 1, Len(path))

\* the cascade over one map of the Index
cascadeCache(cache, oldFolderPath, expectedFolderPath) ==
    [id \in DOMAIN cache |->
        IF StartsWithFolder(cache[id], oldFolderPath)
        THEN replacePrefix(cache[id], oldFolderPath, expectedFolderPath)
        ELSE cache[id]]

\* the folder the Index entry of a project or section stands for
OldFolderPath(v, cachedPath) ==
    IF cachedPath = Null THEN NoPath
    ELSE IF IsTFile(v, cachedPath) THEN Front(cachedPath)
    ELSE IF IsTFolder(v, cachedPath) THEN cachedPath
    ELSE NoPath

\* the index document that goes with OldFolderPath
OldFilePath(v, cachedPath) ==
    IF cachedPath = Null THEN NoPath
    ELSE IF IsTFile(v, cachedPath) THEN cachedPath
    ELSE IF IsTFolder(v, cachedPath)
            /\ IsTFile(v, cachedPath \o <<MdName(Last(cachedPath))>>)
    THEN cachedPath \o <<MdName(Last(cachedPath))>>
    ELSE NoPath

\* the loop found the folder of the entity under another path than expected
RenameDetected(v, cachedPath, expectedFolderPath) ==
    /\ OldFolderPath(v, cachedPath) # NoPath
    /\ OldFolderPath(v, cachedPath) # expectedFolderPath

\* rename detection of the project loop (cascaded = both maps) and of the
\* section loop (cascaded = the task map): the folder is renamed, then its
\* index document, the entity's Index entry is set, the name is written and the
\* new prefix is cascaded; thrown when a renameFile throws
detectRename(w, cache, id, expectedFolderPath, sanitizedName, name, cascaded) ==
    LET cachedPath == Get(w[cache], id)
        oldFolderPath == OldFolderPath(w.v, cachedPath)
        oldFilePath == OldFilePath(w.v, cachedPath)
        v1 == renameFile(w.v, oldFolderPath, expectedFolderPath)
        oldMd == expectedFolderPath \o <<Last(oldFilePath)>>
        newMd == expectedFolderPath \o <<MdName(sanitizedName)>>
        renameMd == oldFilePath # NoPath /\ Last(oldFilePath) # MdName(sanitizedName)
        v2 == IF renameMd THEN renameFile(v1, oldMd, newMd) ELSE v1
        v3 == IF IsTFile(v2, newMd) THEN processFrontMatter(v2, newMd, [name |-> name])
              ELSE v2
        cascade(c) ==
            IF c \in cascaded
            THEN cascadeCache(w[c], oldFolderPath, expectedFolderPath)
            ELSE w[c]
        cascadedW ==
            [w EXCEPT !.v = v3,
                      !.sectionFileCache = cascade("sectionFileCache"),
                      !.taskFileCache = cascade("taskFileCache")]
    IN  IF ~RenameDetected(w.v, cachedPath, expectedFolderPath)
        THEN [w |-> w, thrown |-> FALSE]
        ELSE IF ~CanRename(w.v, oldFolderPath, expectedFolderPath)
        THEN [w |-> w, thrown |-> TRUE]
        ELSE IF renameMd /\ ~CanRename(v1, oldMd, newMd)
        THEN [w |-> [w EXCEPT !.v = v1], thrown |-> TRUE]
        ELSE [w |-> [cascadedW EXCEPT ![cache] = MapSet(w[cache], id, newMd)],
              thrown |-> FALSE]

\* one iteration of the project loop with rename detection
processProjectRenaming(w, project, isFullSync, idsInDelta) ==
    LET id == project.id
        sanitizedProjectName == sanitizeName(project.name)
        expectedProjectFolderPath == normalizePath(baseFolderPath \o <<sanitizedProjectName>>)
        inPayload == isFullSync \/ id \in idsInDelta
        detected == detectRename(w, "projectFileCache", id, expectedProjectFolderPath,
                                 sanitizedProjectName, project.name,
                                 {"sectionFileCache", "taskFileCache"})
    IN  IF (project.is_deleted \/ project.is_archived) /\ inPayload
        THEN processProject(w, project, isFullSync, idsInDelta)
        ELSE IF detected.thrown THEN [detected.w EXCEPT !.err = TRUE]
        ELSE processProject(detected.w, project, isFullSync, idsInDelta)

\* step 5 of the section loop with rename detection: a section with an Index
\* entry is looked up there only
placeSection(w, v, id, expectedPath, frontmatter) ==
    LET currentCachedSectionPath == Get(w.sectionFileCache, id)
        abstractSectionFile ==
            IF currentCachedSectionPath # Null THEN currentCachedSectionPath
            ELSE expectedPath
        written(v2, path) ==
            [w EXCEPT !.v = processFrontMatter(v2, path, frontmatter),
                      !.sectionFileCache = MapSet(@, id, path)]
        thrown == [w EXCEPT !.v = v, !.err = TRUE]
    IN  IF IsTFile(v, abstractSectionFile)
        THEN IF abstractSectionFile = expectedPath THEN written(v, expectedPath)
             ELSE IF CanRename(v, abstractSectionFile, expectedPath)
             THEN written(renameFile(v, abstractSectionFile, expectedPath), expectedPath)
             ELSE thrown
        ELSE IF CanCreate(v, expectedPath)
        THEN written(create(v, expectedPath, Empty), expectedPath)
        ELSE thrown

\* one iteration of the section loop with rename detection
processSectionRenaming(w, section, isFullSync, idsInDelta, lookupProjectsApi) ==
    LET id == section.id
        inPayload == isFullSync \/ id \in idsInDelta
        pi == Lookup(lookupProjectsApi, section.project_id)
        parentProject == lookupProjectsApi[pi]
        sanitizedProjectName == sanitizeName(parentProject.name)
        sanitizedSectionName == sanitizeName(section.name)
        expectedSectionFolderPath ==
            normalizePath(baseFolderPath \o <<sanitizedProjectName, sanitizedSectionName>>)
        expectedSectionFilePath ==
            normalizePath(expectedSectionFolderPath \o <<MdName(sanitizedSectionName)>>)
        detected == detectRename(w, "sectionFileCache", id, expectedSectionFolderPath,
                                 sanitizedSectionName, section.name, {"taskFileCache"})
    IN  IF (section.is_deleted \/ section.is_archived) /\ inPayload
        THEN processSection(w, section, isFullSync, idsInDelta, lookupProjectsApi)
        ELSE IF ~LiveAt(lookupProjectsApi, pi) THEN w
        ELSE IF detected.thrown THEN [detected.w EXCEPT !.err = TRUE]
        ELSE IF Exists(detected.w.v, expectedSectionFolderPath)
                /\ ~IsTFolder(detected.w.v, expectedSectionFolderPath)
        THEN [detected.w EXCEPT !.err = TRUE]
        ELSE placeSection(detected.w,
                          createFolder(detected.w.v, expectedSectionFolderPath),
                          id, expectedSectionFilePath,
                          SectionFrontmatter(section, parentProject))

RECURSIVE processProjectsRenaming(_, _, _, _)
processProjectsRenaming(w, projectsToIterate, isFullSync, idsInDelta) ==
    IF projectsToIterate = <<>> THEN w
    ELSE processProjectsRenaming(
             processProjectRenaming(w, Head(projectsToIterate), isFullSync, idsInDelta),
             Tail(projectsToIterate), isFullSync, idsInDelta)

RECURSIVE processSectionsRenaming(_, _, _, _, _)
processSectionsRenaming(w, sectionsToIterate, isFullSync, idsInDelta, lookupProjectsApi) ==
    IF sectionsToIterate = <<>> THEN w
    ELSE processSectionsRenaming(
             processSectionRenaming(w, Head(sectionsToIterate), isFullSync, idsInDelta,
                                    lookupProjectsApi),
             Tail(sectionsToIterate), isFullSync, idsInDelta, lookupProjectsApi)

\* the names a project or a section is renamed to on the service's side
NewNames == {<<"B">>, <<"X">>, <<"$", "$">>}

\* somebody renames a project or a section on the service's side
RemoteRename ==
    /\ nRemoteEdits < MaxRemoteEdits
    /\ pass.phase = "idle"
    /\ \E name \in NewNames :
        \/ \E id \in DOMAIN remote.projects :
            /\ remote.projects[id].name # name
            /\ remote' = [remote EXCEPT !.projects[id].name = name]
            /\ changed' = changed \cup {id}
            /\ lastOp' = [op |-> "remoteRename", id |-> id, name |-> name]
        \/ \E id \in DOMAIN remote.sections :
            /\ remote.sections[id].name # name
            /\ remote' = [remote EXCEPT !.sections[id].name = name]
            /\ changed' = changed \cup {id}
            /\ lastOp' = [op |-> "remoteRename", id |-> id, name |-> name]
    /\ nRemoteEdits' = nRemoteEdits + 1
    /\ UNCHANGED <<vaultVars, indexVars, snapshotVars, syncToken, pluginVars,
                   queueVars, passVars>>

\* the project loop with rename detection
ProcessProjectsRenaming ==
    LET w == processProjectsRenaming(World,
                 IF pass.isFullSync THEN pass.caches.cachedProjects
                 ELSE pass.fetchedData.projects,
                 pass.isFullSync, IdsOf(pass.fetchedData.projects))
    IN  /\ pass.phase = "projects"
        /\ Store(w)
        /\ pass' = [pass EXCEPT !.phase = "sections", !.err = w.err]
        /\ lastOp' = [op |-> "projects"]
        /\ UNCHANGED <<snapshotVars, syncToken, pluginVars, queueVars, remoteVars, nPasses>>

\* the section loop with rename detection
ProcessSectionsRenaming ==
    LET w == processSectionsRenaming(World,
                 IF pass.isFullSync THEN pass.caches.cachedSections
                 ELSE pass.fetchedData.sections,
                 pass.isFullSync, IdsOf(pass.fetchedData.sections),
                 pass.caches.cachedProjects)
    IN  /\ pass.phase = "sections"
        /\ Store(w)
        /\ pass' = [pass EXCEPT !.phase = "tasks", !.err = w.err]
        /\ lastOp' = [op |-> "sections"]
        /\ UNCHANGED <<snapshotVars, syncToken, pluginVars, queueVars, remoteVars, nPasses>>

NextRename ==
    \/ \E isFullSync \in BOOLEAN : SyncStart(isFullSync)
    \/ FetchFail
    \/ FetchOk
    \/ ProcessProjectsRenaming
    \/ ProcessSectionsRenaming
    \/ ProcessTasks
    \/ Finish
    \/ RemoteRename

\* a vault in sync, an account whose projects and sections get renamed
SpecRename == InitQueue /\ [][NextRename]_vars

\* the projects the project loop is about to find renamed
RenamedProjects ==
    LET projectsToIterate ==
            IF pass.isFullSync THEN pass.caches.cachedProjects
            ELSE pass.fetchedData.projects
    IN  {i \in 1..Len(projectsToIterate) :
            /\ ActiveContainer(projectsToIterate[i])
            /\ RenameDetected(Vault, Get(projectFileCache, projectsToIterate[i].id),
                   normalizePath(baseFolderPath
                                 \o <<sanitizeName(projectsToIterate[i].name)>>))}

\* the Index path of every entity under oldFolderPath has that prefix replaced
\* by expectedFolderPath, every other Index path is what it was
Cascaded(before, after, oldFolderPath, expectedFolderPath) ==
    /\ DOMAIN after = DOMAIN before
    /\ \A id \in DOMAIN before :
        after[id] = IF StartsWithFolder(before[id], oldFolderPath)
                    THEN Moved(oldFolderPath, expectedFolderPath, before[id])
                    ELSE before[id]

\* C11: when the project loop detects that an active project was renamed, the
\* Index path of every section and task under the old project folder has that
\* prefix replaced by the new folder path, and no other Index path changes
C11_RenameCascade ==
    [][(pass.phase = "projects" /\ RenamedProjects # {})
       => \A i \in RenamedProjects :
            LET project == (IF pass.isFullSync THEN pass.caches.cachedProjects
                            ELSE pass.fetchedData.projects)[i]
                oldFolderPath == OldFolderPath(Vault, projectFileCache[project.id])
                expectedFolderPath ==
                    normalizePath(baseFolderPath \o <<sanitizeName(project.name)>>)
            IN  /\ Cascaded(sectionFileCache, sectionFileCache',
                            oldFolderPath, expectedFolderPath)
                /\ Cascaded(taskFileCache, taskFileCache',
                            oldFolderPath, expectedFolderPath)
      ]_vars

----------------------------------------------------------------------------
(* Specification of the passes alone: a fresh vault pointed at one of a few *)
(* accounts, among them accounts whose two tasks get the same file name     *)

\* the contents of the second task
TaskNames == {<<"X">>, <<"Y">>, <<"X", "?">>, <<"X", ":">>}

\* the accounts: the first task sits in the project, the second in the project
\* or in its section
Accounts ==
    {[projects |-> ("p1" :> Project("p1", <<"A">>)),
      sections |-> ("s1" :> Section("s1", <<"S">>, "p1")),
      tasks |-> ("t1" :> Item("t1", content1, "p1", Null))
                @@ ("t2" :> Item("t2", content2, "p1", section_id)),
      issued |-> 0] :
        content1 \in {<<"X">>, <<"X", "?">>},
        content2 \in TaskNames,
        section_id \in {Null, "s1"}}

InitAccounts ==
    /\ files = Empty
    /\ folders = {<<>>}
    /\ projectFileCache = Empty
    /\ sectionFileCache = Empty
    /\ taskFileCache = Empty
    /\ cachedProjects = <<>>
    /\ cachedSections = <<>>
    /\ cachedTasks = <<>>
    /\ syncToken = ""
    /\ isSyncing = FALSE
    /\ isInitialLoad = TRUE
    /\ pendingCommands = <<>>
    /\ timer = -1
    /\ isProcessing = FALSE
    /\ inFlight = <<>>
    /\ nextUuid = 0
    /\ window = <<>>
    /\ remote \in Accounts
    /\ changed = {}
    /\ nRemoteEdits = 0
    /\ pass = NoPass
    /\ nPasses = 0
    /\ lastOp = NoOp

NextPasses ==
    \/ \E isFullSync \in BOOLEAN : SyncStart(isFullSync)
    \/ FetchFail
    \/ FetchOk
    \/ ProcessProjects
    \/ ProcessSections
    \/ ProcessTasks
    \/ Finish

SpecPasses == InitAccounts /\ [][NextPasses]_vars

\* no two ids share a path of the map
OnePathPerId(cache) ==
    \A a, b \in DOMAIN cache : cache[a] = cache[b] => a = b

\* the parent folder the task loop computes for a task of the SnapshotCache
ParentFolderOf(task) ==
    LET pi == Lookup(cachedProjects, task.project_id)
        si == Lookup(cachedSections, task.section_id)
        projectFolder ==
            normalizePath(baseFolderPath \o <<sanitizeName(cachedProjects[pi].name)>>)
    IN  IF ~LiveAt(cachedProjects, pi) THEN baseFolderPath
        ELSE IF LiveAt(cachedSections, si)
        THEN normalizePath(projectFolder \o <<sanitizeName(cachedSections[si].name)>>)
        ELSE projectFolder

\* the task is in the Index, at a document of its own
IndexedAtOwnDocument(id) ==
    /\ Has(taskFileCache, id)
    /\ IsTFile(Vault, taskFileCache[id])
    /\ Get(files[taskFileCache[id]], "todoist_id") = id

\* C12: no two ids of one kind ever share an Index path, and when a pass has
\* processed two active tasks with different ids that sanitize to the same
\* name under the same parent, the Index maps them to two distinct existing
\* documents
C12_CollisionsDisambiguated ==
    /\ OnePathPerId(projectFileCache)
    /\ OnePathPerId(sectionFileCache)
    /\ OnePathPerId(taskFileCache)
    /\ (PassEnded /\ lastOp.fetched /\ lastOp.isFullSync) =>
        \A i, j \in 1..Len(cachedTasks) :
            LET a == cachedTasks[i]
                b == cachedTasks[j]
            IN  (/\ a.id # b.id
                 /\ ActiveTask(a) /\ ActiveTask(b)
                 /\ ParentFolderOf(a) = ParentFolderOf(b)
                 /\ sanitizeName(a.content) = sanitizeName(b.content))
                => /\ IndexedAtOwnDocument(a.id)
                   /\ IndexedAtOwnDocument(b.id)
                   /\ taskFileCache[a.id] # taskFileCache[b.id]

----------------------------------------------------------------------------
(* Specification of completions: a vault in sync, tasks completed on the   *)
(* service's side, a user who renames documents, and the passes            *)

\* a change of one of the kinds on the service's side
RemoteEditOfKind(kinds) ==
    /\ nRemoteEdits < MaxRemoteEdits
    /\ pass.phase = "idle"
    /\ \E edit \in RemoteEdits(remote) :
        /\ edit.kind \in kinds
        /\ ApplyEdit(remote, edit) # remote
        /\ remote' = ApplyEdit(remote, edit)
        /\ changed' = changed \cup Touched(remote, edit)
        /\ lastOp' = [op |-> "remoteEdit", edit |-> edit]
    /\ nRemoteEdits' = nRemoteEdits + 1
    /\ UNCHANGED <<vaultVars, indexVars, snapshotVars, syncToken, pluginVars,
                   queueVars, passVars>>

NextDone ==
    \/ \E isFullSync \in BOOLEAN : SyncStart(isFullSync)
    \/ FetchFail
    \/ FetchOk
    \/ ProcessProjects
    \/ ProcessSections
    \/ ProcessTasks
    \/ Finish
    \/ RemoteEditOfKind({"completeTask"})
    \/ LocalRename

SpecDone == InitQueue /\ [][NextDone]_vars

\* the tasks an incremental delta reports as completed that have an Index entry
CompletedInDelta ==
    {i \in 1..Len(pass.fetchedData.tasks) :
        /\ ~pass.fetchedData.tasks[i].is_deleted
        /\ pass.fetchedData.tasks[i].completed_at # Null
        /\ Has(taskFileCache, pass.fetchedData.tasks[i].id)}

\* the step filed the task's document in Done: nothing is left at the prior
\* path, a document of the task with the metadata of the payload is under the
\* Done root, and the Index no longer holds the task
MovedToDone(task) ==
    /\ taskFileCache[task.id] \notin DOMAIN files'
    /\ \E p \in DOMAIN files' :
        /\ StartsWithFolder(p, doneFolderPath)
        /\ \A k \in DOMAIN TaskFrontmatter(task) :
               Has(files'[p], k) /\ files'[p][k] = TaskFrontmatter(task)[k]
    /\ ~Has(taskFileCache', task.id)

\* C13 as stated: when an incremental delta reports as completed a task that
\* has an Index entry, then after the task loop (the last step of an
\* incremental pass that changes anything) no document is at the prior path,
\* the document is under the Done root with its metadata refreshed, and the
\* Index no longer contains the task
C13_CompletedIsFiledInDone ==
    [][(pass.phase = "tasks" /\ ~pass.isFullSync)
       => \A i \in CompletedInDelta : MovedToDone(pass.fetchedData.tasks[i])
      ]_vars

\* C13 amended: the same for a task whose Index entry points at an existing
\* document
C13_CompletedIsFiledInDoneWhenIndexed ==
    [][(pass.phase = "tasks" /\ ~pass.isFullSync)
       => \A i \in CompletedInDelta :
            IsTFile(Vault, taskFileCache[pass.fetchedData.tasks[i].id])
            => MovedToDone(pass.fetchedData.tasks[i])
      ]_vars

\* an incremental pass has just filed in Done a task that was in the Index
\* when the pass started
C13_Witness ==
    /\ pass.phase = "cleanup"
    /\ ~pass.isFullSync
    /\ \E i \in 1..Len(pass.fetchedData.tasks) :
        LET task == pass.fetchedData.tasks[i]
        IN  /\ task.completed_at # Null
            /\ Has(pass.pre.taskFileCache, task.id)
            /\ pass.pre.taskFileCache[task.id] \in DOMAIN pass.pre.files
            /\ pass.pre.taskFileCache[task.id] \notin DOMAIN files
            /\ ~Has(taskFileCache, task.id)
            /\ \E p \in DOMAIN files :
                   StartsWithFolder(p, doneFolderPath) /\ files[p].todoist_id = task.id

----------------------------------------------------------------------------
(* Canonical locations *)

\* where the task loop puts the document of a task of the SnapshotCache
CanonicalTaskPath(task) ==
    normalizePath(ParentFolderOf(task) \o <<MdName(sanitizeName(task.content))>>)

\* where the project loop puts the index document of a project
CanonicalProjectPath(project) ==
    normalizePath(baseFolderPath
                  \o <<sanitizeName(project.name), MdName(sanitizeName(project.name))>>)

\* C14: after a full pass every active project has its folder under the base
\* root with its index document in it, every active task has a document at
\* (folder of its active section, else of its active project, else the base
\* root)/sanitized(content).md, and the Identity Index maps each of these ids
\* to that document path
C14_CanonicalLocations ==
    (PassEnded /\ lastOp.fetched /\ lastOp.isFullSync) =>
        /\ \A i \in 1..Len(cachedProjects) :
            ActiveContainer(cachedProjects[i]) =>
                /\ IsTFolder(Vault, Front(CanonicalProjectPath(cachedProjects[i])))
                /\ IsTFile(Vault, CanonicalProjectPath(cachedProjects[i]))
                /\ Get(projectFileCache, cachedProjects[i].id)
                       = CanonicalProjectPath(cachedProjects[i])
        /\ \A i \in 1..Len(cachedTasks) :
            ActiveTask(cachedTasks[i]) =>
                /\ IsTFile(Vault, CanonicalTaskPath(cachedTasks[i]))
                /\ Get(taskFileCache, cachedTasks[i].id)
                       = CanonicalTaskPath(cachedTasks[i])

----------------------------------------------------------------------------
(* Change Detector: the handlers of local edit notifications *)

\* findTodoistIdByPath: the first id of the map whose path is filePath
findTodoistIdByPath(filePath, cache) ==
    LET ids == {id \in DOMAIN cache : cache[id] = filePath}
    IN  IF ids = {} THEN Null
        ELSE CHOOSE id \in ids : \A other \in ids : Rank(id) <= Rank(other)

\* variant: a change detector that sends whatever priority the document has
detectChangeAnyPriority(file, newFrontmatter, uuid) ==
    LET todoistId == findTodoistIdByPath(file, taskFileCache)
        i == Lookup(cachedTasks, todoistId)
        cachedTask == cachedTasks[i]
        content ==
            IF Get(newFrontmatter, "content") # cachedTask.content
            THEN [content |-> newFrontmatter.content] ELSE Empty
        priority ==
            IF Has(newFrontmatter, "priority")
               /\ newFrontmatter.priority # cachedTask.priority
            THEN [priority |-> newFrontmatter.priority] ELSE Empty
        updateArgs == Spread(Spread([id |-> todoistId], content), priority)
    IN  IF todoistId = Null \/ i = 0 THEN <<>>
        ELSE IF updateArgs # [id |-> todoistId]
        THEN <<[type |-> "item_update", uuid |-> uuid, args |-> updateArgs]>>
        ELSE <<>>

\* variant: a change detector that looks at the content before the completion
detectChangeContentFirst(file, newFrontmatter, uuid) ==
    LET todoistId == findTodoistIdByPath(file, taskFileCache)
        i == Lookup(cachedTasks, todoistId)
        cachedTask == cachedTasks[i]
    IN  IF todoistId = Null \/ i = 0 THEN <<>>
        ELSE IF Get(newFrontmatter, "content") # cachedTask.content
        THEN <<[type |-> "item_update", uuid |-> uuid,
                args |-> [id |-> todoistId, content |-> newFrontmatter.content]]>>
        ELSE IF Get(newFrontmatter, "completed") = TRUE /\ ~cachedTask.is_completed
        THEN <<[type |-> "item_complete", uuid |-> uuid,
                args |-> [id |-> todoistId, completed_at |-> Now]]>>
        ELSE <<>>

\* handleMetadataChange past its guard: the command the change asks for, if any
detectChange(file, newFrontmatter, uuid) ==
    LET todoistId == findTodoistIdByPath(file, taskFileCache)
        i == Lookup(cachedTasks, todoistId)
        cachedTask == cachedTasks[i]
        isNowCompletedInFrontmatter ==
            Has(newFrontmatter, "completed") /\ newFrontmatter.completed
        reopened ==
            Has(newFrontmatter, "completed") /\ ~newFrontmatter.completed
        currentContentInObsidian ==
            IF Has(newFrontmatter, "content")
               /\ TrimEnd(TrimStart(newFrontmatter.content)) # <<>>
            THEN newFrontmatter.content
            ELSE Basename(file)
        content ==
            IF currentContentInObsidian # cachedTask.content
            THEN [content |-> currentContentInObsidian] ELSE Empty
        description ==
            IF Has(newFrontmatter, "description")
               /\ newFrontmatter.description # cachedTask.description
            THEN [description |-> newFrontmatter.description] ELSE Empty
        priority ==
            IF Has(newFrontmatter, "priority")
               /\ newFrontmatter.priority # cachedTask.priority
               /\ newFrontmatter.priority \in 1..4
            THEN [priority |-> newFrontmatter.priority] ELSE Empty
        due_string ==
            IF Has(newFrontmatter, "due_string")
               /\ newFrontmatter.due_string # cachedTask.due_string
            THEN [due_string |-> newFrontmatter.due_string] ELSE Empty
        updateArgs ==
            Spread(Spread(Spread(Spread([id |-> todoistId], content), description),
                          priority), due_string)
    IN  IF todoistId = Null \/ i = 0 THEN <<>>
        ELSE IF Get(newFrontmatter, "type") # "task" THEN <<>>
        ELSE IF isNowCompletedInFrontmatter /\ ~cachedTask.is_completed
        THEN <<[type |-> "item_complete", uuid |-> uuid,
                args |-> [id |-> todoistId, completed_at |-> Now]]>>
        ELSE IF reopened /\ cachedTask.is_completed
        THEN <<[type |-> "item_uncomplete", uuid |-> uuid, args |-> [id |-> todoistId]]>>
        ELSE IF updateArgs # [id |-> todoistId]
        THEN <<[type |-> "item_update", uuid |-> uuid, args |-> updateArgs]>>
        ELSE <<>>

\* variant: a handler with no re-entrancy guard
handleMetadataChangeUnguarded(file, newFrontmatter, uuid) ==
    detectChange(file, newFrontmatter, uuid)

\* handleMetadataChange: nothing while a pass runs
handleMetadataChange(file, newFrontmatter, uuid) ==
    IF isSyncing THEN <<>> ELSE detectChange(file, newFrontmatter, uuid)

\* the handler setupEventHandlers registers for vault renames: nothing while a
\* pass runs; a task document with a blank content field gives its new name
handleRename(file, fileFrontmatter, uuid) ==
    LET i == Lookup(cachedTasks, Get(fileFrontmatter, "task_id"))
        blank ==
            ~Has(fileFrontmatter, "content")
            \/ TrimEnd(TrimStart(fileFrontmatter.content)) = <<>>
    IN  IF isSyncing THEN <<>>
        ELSE IF ~Has(fileFrontmatter, "task_id") \/ Get(fileFrontmatter, "type") # "task"
        THEN <<>>
        ELSE IF i = 0 THEN <<>>
        ELSE IF blank /\ Basename(file) # cachedTasks[i].content
        THEN <<[type |-> "item_update", uuid |-> uuid,
                args |-> [id |-> fileFrontmatter.task_id, content |-> Basename(file)]]>>
        ELSE <<>>

\* the handler's calls of queueTodoistCommand
Enqueue(commands, op, file) ==
    /\ commands = <<>> \/ nextUuid < MaxEnqueues
    /\ IF commands = <<>>
       THEN UNCHANGED <<pendingCommands, timer, nextUuid, window>>
       ELSE /\ pendingCommands' = queueTodoistCommand(pendingCommands, commands[1])
            /\ window' = Append(window, commands[1])
            /\ timer' = scheduleProcessPendingCommands
            /\ nextUuid' = nextUuid + 1
    /\ lastOp' = [op |-> op, file |-> file]
    /\ UNCHANGED <<isProcessing, inFlight>>
    /\ UNCHANGED <<vaultVars, indexVars, snapshotVars, syncToken, pluginVars,
                   remoteVars, passVars>>

\* the documents of tasks
TaskDocuments == {file \in DOMAIN files : Get(files[file], "type") = "task"}

\* metadataCache 'changed' arrives for a task document, with its frontmatter
MetadataChange ==
    \E file \in TaskDocuments :
        Enqueue(handleMetadataChange(file, files[file], ToString(nextUuid + 1)),
                "metadataChange", file)

\* vault 'rename' arrives for a task document
RenameNotification ==
    \E file \in TaskDocuments :
        Enqueue(handleRename(file, files[file], ToString(nextUuid + 1)), "rename", file)

\* what the user writes into the frontmatter of a task document
UserEdits == {[completed |-> TRUE], [content |-> UserName]}

\* the handler would turn a notification for the document into an intent
PendingEdit(file) == detectChange(file, files[file], "u") # <<>>

\* the user edits the frontmatter of a task document, one edit at a time
UserEdit ==
    /\ \A file \in DOMAIN files : ~PendingEdit(file)
    /\ \E file \in TaskDocuments : \E edit \in UserEdits :
        /\ Spread(files[file], edit) # files[file]
        /\ files' = processFrontMatter(Vault, file, edit).files
        /\ lastOp' = [op |-> "userEdit", file |-> file, edit |-> edit]
    /\ UNCHANGED <<folders, indexVars, snapshotVars, syncToken, pluginVars,
                   queueVars, remoteVars, passVars>>

NextEvents ==
    \/ \E isFullSync \in BOOLEAN : SyncStart(isFullSync)
    \/ FetchFail
    \/ FetchOk
    \/ ProcessProjects
    \/ ProcessSections
    \/ ProcessTasks
    \/ Finish
    \/ UserEdit
    \/ MetadataChange
    \/ RenameNotification

\* a vault in sync, a user who edits task documents, the notifications of
\* these changes and of the engine's own, and the passes
SpecEvents == InitQueue /\ [][NextEvents]_vars

\* the step is the run of a handler of local edit notifications
Notified == lastOp'.op \in {"metadataChange", "rename"}

\* C15: a local edit notification (metadata change or rename) that arrives
\* while a reconciliation pass is in progress enqueues no intent and changes
\* no state
C15_NoIntentWhileSyncing ==
    [][(pass.phase # "idle" /\ Notified)
       => UNCHANGED <<vaultVars, indexVars, snapshotVars, syncToken, pluginVars,
                         queueVars, remoteVars, passVars>>
      ]_vars

\* a notification has arrived, while a pass runs, for a task document the user
\* has edited, which the handler would turn into an intent between passes
C15_Witness ==
    /\ pass.phase # "idle"
    /\ lastOp.op = "metadataChange"
    /\ lastOp.file \in DOMAIN files
    /\ PendingEdit(lastOp.file)
    /\ pendingCommands = <<>>

----------------------------------------------------------------------------
(* Specification of the Command Queue and the passes side by side *)

NextInterleaved ==
    \/ QueueCommand
    \/ Tick
    \/ TimerFire
    \/ DispatchReturn
    \/ \E isFullSync \in BOOLEAN : SyncStart(isFullSync)
    \/ FetchFail
    \/ FetchOk
    \/ ProcessProjects
    \/ ProcessSections
    \/ ProcessTasks
    \/ Finish

\* a vault in sync, change detectors that queue commands, the timer and the
\* answers of the service, and the sync commands
SpecInterleaved == InitQueue /\ [][NextInterleaved]_vars

\* C16: mutations of the Identity Index and SnapshotCache never interleave:
\* while a reconciliation pass is suspended mid-pass, neither the Command
\* Queue's result-application step nor a second pass changes the Index or the
\* SnapshotCache
C16_MutationsNeverInterleave ==
    [][pass.phase # "idle"
       => /\ nPasses' = nPasses
          /\ lastOp'.op = "return" => UNCHANGED <<indexVars, snapshotVars>>
      ]_vars

----------------------------------------------------------------------------
(* Specification of the escalation *)

NextEscalation ==
    \/ \E isFullSync \in BOOLEAN : SyncStart(isFullSync)
    \/ FetchFail
    \/ FetchOk
    \/ ProcessProjects
    \/ ProcessSections
    \/ ProcessTasks
    \/ Finish
    \/ RemoteEditOfKind({"archiveSection", "completeTask"})

\* a fresh vault or one in sync, an account whose section is archived or whose
\* tasks are completed, and the passes
SpecEscalation == InitSync /\ [][NextEscalation]_vars

\* a per-kind Identity Index is empty
AnyIndexEmpty ==
    projectFileCache = Empty \/ sectionFileCache = Empty \/ taskFileCache = Empty

\* the step starts a pass that was requested as an incremental one
IncrementalRequested ==
    /\ pass.phase = "idle"
    /\ pass'.phase = "fetch"
    /\ ~lastOp'.isFullSync

\* the pass is carried out as a full pass and, before the fetch, the Index is
\* one that populateAllCaches builds from the tree
Escalated ==
    /\ pass'.isFullSync
    /\ [projectFileCache |-> projectFileCache',
        sectionFileCache |-> sectionFileCache',
        taskFileCache |-> taskFileCache'] \in populateAllCaches(Vault)

\* C17: whenever an incremental pass is requested while any per-kind Identity
\* Index (projects, sections or tasks) is empty, the pass is carried out as a
\* full pass and the Index is rebuilt from the tree before the fetch
C17_EscalatesWhenIndexEmpty ==
    [][(IncrementalRequested /\ AnyIndexEmpty) => Escalated]_vars

\* C17, amended: whenever an incremental pass is requested on the initial load
\* (no pass has fetched since the plugin was loaded) while any per-kind
\* Identity Index is empty, the pass is carried out as a full pass and the
\* Index is rebuilt from the tree before the fetch
C17_EscalatesOnInitialLoad ==
    [][(IncrementalRequested /\ isInitialLoad /\ AnyIndexEmpty) => Escalated]_vars

\* an incremental pass was requested with an empty Index on the initial load
\* and waits for its fetch as a full pass
C17_Witness ==
    /\ pass.phase = "fetch"
    /\ lastOp.op = "syncStart"
    /\ ~lastOp.isFullSync
    /\ pass.isInitialLoad
    /\ pass.isFullSync
    /\ pass.pre.taskFileCache = Empty

----------------------------------------------------------------------------
(* Cursor ordering *)

\* C18: within a pass the new SyncCursor is persisted only after the
\* processing of projects, sections and tasks (and, on a full pass, the
\* cleanup sweep) has completed: no step of a pass that still has these
\* steps before it changes the persisted cursor
C18_CursorAfterProcessing ==
    [][(pass.phase \in {"fetch", "projects", "sections", "tasks"})
       => syncToken' = syncToken]_vars

----------------------------------------------------------------------------
(* Documents are relocated, never deleted *)

\* C19: no operation of the core (entity processing in a pass, the full-pass
\* cleanup sweep, a move fallback, or command result application) removes a
\* document from storage: every document that exists before the operation
\* exists at some path afterwards, so no step leaves fewer documents than it
\* found
C19_DocumentsNeverDeleted ==
    [][Cardinality(DOMAIN files') >= Cardinality(DOMAIN files)]_vars

----------------------------------------------------------------------------
(* Specification of tasks that are completed and reopened *)

\* somebody reopens a completed task on the service's side
RemoteReopen ==
    /\ pass.phase = "idle"
    /\ \E id \in DOMAIN remote.tasks :
        /\ remote.tasks[id].is_completed
        /\ remote' = [remote EXCEPT !.tasks =
                         Mark(@, {id}, [completed_at |-> Null, is_completed |-> FALSE])]
        /\ changed' = changed \cup {id}
        /\ lastOp' = [op |-> "remoteReopen", id |-> id]
    /\ UNCHANGED <<vaultVars, indexVars, snapshotVars, syncToken, pluginVars,
                   queueVars, nRemoteEdits, passVars>>

NextReopen ==
    \/ \E isFullSync \in BOOLEAN : SyncStart(isFullSync)
    \/ FetchFail
    \/ FetchOk
    \/ ProcessProjects
    \/ ProcessSections
    \/ ProcessTasks
    \/ Finish
    \/ RemoteEditOfKind({"completeTask"})
    \/ RemoteReopen

\* a vault in sync, an account whose tasks are completed and reopened, and
\* the passes
SpecReopen == InitQueue /\ [][NextReopen]_vars

\* the path is under the Done, Archive or Trash root
InBucket(p) ==
    IsPrefix(doneFolderPath, p) \/ IsPrefix(archiveFolderPath, p)
    \/ IsPrefix(trashFolderPath, p)

\* the documents of the entity, when it has any, are one document, in the
\* one place that matches its state
OneBucket(e, type, active) ==
    LET docs == DocsOf(Vault, type, e.id)
    IN  docs # {} =>
            /\ Cardinality(docs) = 1
            /\ \A p \in docs : IF active THEN ~InBucket(p) ELSE IsPrefix(BucketOf(e), p)

\* C20: after any sequence of passes each entity has its document in exactly
\* one of the Active hierarchy, Done, Archive and Trash, the one matching its
\* state; an entity that was relocated to a bucket and is reported active
\* again never has one document in the bucket and another in the Active
\* hierarchy
C20_OneBucketPerEntity ==
    (PassEnded /\ lastOp.fetched) =>
        /\ \A i \in 1..Len(cachedProjects) :
               OneBucket(cachedProjects[i], "project", ActiveContainer(cachedProjects[i]))
        /\ \A i \in 1..Len(cachedSections) :
               OneBucket(cachedSections[i], "section", ActiveContainer(cachedSections[i]))
        /\ \A i \in 1..Len(cachedTasks) :
               OneBucket(cachedTasks[i], "task", ActiveTask(cachedTasks[i]))

----------------------------------------------------------------------------
(* Specification of the merge into the SnapshotCache *)

NextMerge ==
    \/ \E isFullSync \in BOOLEAN : SyncStart(isFullSync)
    \/ FetchFail
    \/ FetchOk
    \/ ProcessProjects
    \/ ProcessSections
    \/ ProcessTasks
    \/ Finish
    \/ RemoteEditOfKind({"completeTask", "renameTask", "purgeTask", "renameProject"})

\* a fresh vault or one in sync, an account whose tasks and project change,
\* and the passes
SpecMerge == InitSync /\ [][NextMerge]_vars

\* the entries of a list
Range(items) == {items[i] : i \in 1..Len(items)}

\* merged has one entry per id, the ids of previous and of delta, the delta's
\* value for an id of the delta and the previous value for any other id
Upserted(previous, delta, merged) ==
    /\ \A i, j \in 1..Len(merged) : merged[i].id = merged[j].id => i = j
    /\ IdsOf(merged) = IdsOf(previous) \cup IdsOf(delta)
    /\ \A i \in 1..Len(merged) :
        IF merged[i].id \in IdsOf(delta)
        THEN \E j \in 1..Len(delta) : delta[j] = merged[i]
        ELSE \E j \in 1..Len(previous) : previous[j] = merged[i]

\* the step ends a pass whose fetch was answered
PassCompletes == pass.phase = "cleanup" /\ pass'.phase = "idle"

\* C21: after a full pass the SnapshotCache of each kind equals the fetched
\* set exactly; after an incremental pass it has one entry per id, its id set
\* is the union of the previous ids and the delta ids, every id in the delta
\* carries the delta's value and every id not in the delta keeps its previous
\* value
C21_SnapshotCacheMerge ==
    [][PassCompletes =>
          IF pass.isFullSync
          THEN /\ cachedProjects' = pass.fetchedData.projects
               /\ cachedSections' = pass.fetchedData.sections
               /\ cachedTasks' = pass.fetchedData.tasks
          ELSE /\ Upserted(pass.pre.cachedProjects, pass.fetchedData.projects, cachedProjects')
               /\ Upserted(pass.pre.cachedSections, pass.fetchedData.sections, cachedSections')
               /\ Upserted(pass.pre.cachedTasks, pass.fetchedData.tasks, cachedTasks')
      ]_vars

\* an incremental pass has ended whose delta changed a task of the
\* SnapshotCache and left another one as it was
C21_Witness ==
    /\ PassEnded
    /\ lastOp.fetched
    /\ ~lastOp.isFullSync
    /\ Len(cachedTasks) = 2
    /\ \E i \in 1..Len(cachedTasks) : cachedTasks[i] \notin Range(lastOp.pre.cachedTasks)
    /\ \E i \in 1..Len(cachedTasks) : cachedTasks[i] \in Range(lastOp.pre.cachedTasks)

----------------------------------------------------------------------------
(* Order of the loops *)

\* C22: within one pass every project is processed before any section and
\* every section before any task: the section loop runs only on a pass whose
\* project loop has just ended, and the task loop only on a pass whose section
\* loop has just ended
C22_ProjectsSectionsTasks ==
    [][/\ lastOp'.op = "sections" => (pass.phase = "sections" /\ lastOp.op = "projects")
       /\ lastOp'.op = "tasks" => (pass.phase = "tasks" /\ lastOp.op = "sections")
       /\ lastOp'.op = "projects" => (pass.phase = "projects" /\ lastOp.op = "fetchOk")
      ]_vars

\* the task loop of a pass that had projects, sections and tasks to process
\* has ended
C22_Witness ==
    /\ pass.phase = "cleanup"
    /\ lastOp.op = "tasks"
    /\ pass.fetchedData.projects # <<>>
    /\ pass.fetchedData.sections # <<>>
    /\ pass.fetchedData.tasks # <<>>

----------------------------------------------------------------------------
(* Specification of projects and sections that are deleted or archived *)

NextRelocate ==
    \/ \E isFullSync \in BOOLEAN : SyncStart(isFullSync)
    \/ FetchFail
    \/ FetchOk
    \/ ProcessProjects
    \/ ProcessSections
    \/ ProcessTasks
    \/ Finish
    \/ RemoteEditOfKind({"deleteProject", "archiveProject", "deleteSection", "archiveSection"})

\* a vault in sync, an account whose project or section is deleted or
\* archived, and the passes
SpecRelocate == InitQueue /\ [][NextRelocate]_vars

\* the flag the deleted or archived branch writes into the document
Marked(e, frontmatter) ==
    IF e.is_deleted THEN Get(frontmatter, "is_deleted") = TRUE
    ELSE Get(frontmatter, "is_archived") = TRUE

\* the entity had an Index entry that pointed at its document when the pass
\* started, and in the state after the step it has no document in the Active
\* hierarchy, a marked document under its bucket root, and no Index entry
RelocatedAfter(e, type, before, after) ==
    (Has(before, e.id) /\ before[e.id] \in DocsOf([files |-> pass.pre.files], type, e.id))
    => /\ \A p \in DocsOf([files |-> files'], type, e.id) : InBucket(p)
       /\ \E p \in DocsOf([files |-> files'], type, e.id) :
              IsPrefix(BucketOf(e), p) /\ Marked(e, files'[p])
       /\ ~Has(after, e.id)

\* C23: when a pass processes a project or section that is reported deleted
\* (resp. archived) on a full pass or in the delta and that has an Index
\* entry, then after the pass its document no longer exists in the Active
\* hierarchy, it exists under the Trash (resp. Archive) root with metadata
\* marked deleted (resp. archived), and the Identity Index no longer contains
\* the entity
C23_DeletedOrArchivedIsRelocated ==
    [][PassCompletes =>
          /\ \A i \in 1..Len(pass.fetchedData.projects) :
                LET e == pass.fetchedData.projects[i]
                IN  (e.is_deleted \/ e.is_archived)
                    => RelocatedAfter(e, "project", pass.pre.projectFileCache,
                                      projectFileCache')
          /\ \A i \in 1..Len(pass.fetchedData.sections) :
                LET e == pass.fetchedData.sections[i]
                IN  (e.is_deleted \/ e.is_archived)
                    => RelocatedAfter(e, "section", pass.pre.sectionFileCache,
                                      sectionFileCache')
      ]_vars

----------------------------------------------------------------------------
(* Specification of deleted and archived sections whose document the user  *)
(* has moved                                                                *)

\* the user drags the document of a project or section out of its folder,
\* into the folder above
LocalMove ==
    /\ pass.phase = "idle"
    /\ \E file \in DOMAIN files :
        LET to == Front(Front(file)) \o <<Last(file)>>
        IN  /\ InBaseFolder(file)
            /\ Get(files[file], "type") \in {"project", "section"}
            /\ InBaseFolder(to)
            /\ CanRename(Vault, file, to)
            /\ files' = renameFile(Vault, file, to).files
            /\ lastOp' = [op |-> "localMove", file |-> file]
    /\ UNCHANGED <<folders, indexVars, snapshotVars, syncToken, pluginVars,
                   queueVars, remoteVars, passVars>>

NextMove ==
    \/ \E isFullSync \in BOOLEAN : SyncStart(isFullSync)
    \/ FetchFail
    \/ FetchOk
    \/ ProcessProjects
    \/ ProcessSections
    \/ ProcessTasks
    \/ Finish
    \/ RemoteEditOfKind({"deleteSection", "archiveSection"})
    \/ LocalMove

\* a vault in sync, a user who moves the documents of projects and sections,
\* an account whose section is deleted or archived, and the passes
SpecMove == InitQueue /\ [][NextMove]_vars

\* the entity is relocated by the loop and the Index points at a document of
\* it whose enclosing folder does not bear its name: every other document in
\* that folder is after the step where and what it was
OthersStay(e, cache) ==
    (/\ e.is_deleted \/ e.is_archived
     /\ Has(cache, e.id)
     /\ IsTFile(Vault, cache[e.id])
     /\ Last(Front(cache[e.id])) # sanitizeName(e.name))
    => \A p \in DOMAIN files \ {cache[e.id]} :
           IsPrefix(Front(cache[e.id]), p) => (p \in DOMAIN files' /\ files'[p] = files[p])

\* C24: when a deleted or archived project or section is relocated, the
\* enclosing folder is moved only if the folder's name matches the entity;
\* otherwise only the entity's document is moved and every other document in
\* that folder stays where it was
C24_FolderMovedOnlyWhenNamed ==
    [][/\ (pass.phase = "projects" /\ lastOp'.op = "projects")
          => \A i \in 1..Len(pass.fetchedData.projects) :
                 OthersStay(pass.fetchedData.projects[i], projectFileCache)
       /\ (pass.phase = "sections" /\ lastOp'.op = "sections")
          => \A i \in 1..Len(pass.fetchedData.sections) :
                 OthersStay(pass.fetchedData.sections[i], sectionFileCache)
      ]_vars

----------------------------------------------------------------------------
(* Specification of the lifecycle cases: entities that carry more than one  *)
(* flag when the pass sees them                                             *)

\* the changes that leave an entity with two flags
FlagPairs ==
    {<<"archiveProject", "deleteProject">>, <<"archiveSection", "deleteSection">>,
     <<"completeTask", "deleteTask">>}

\* the service is changed twice between two passes: an entity is archived or
\* completed, and then deleted
RemoteEditTwice ==
    /\ nRemoteEdits < MaxRemoteEdits
    /\ pass.phase = "idle"
    /\ \E first \in RemoteEdits(remote) :
        LET r1 == ApplyEdit(remote, first)
        IN  \E second \in RemoteEdits(r1) :
                /\ <<first.kind, second.kind>> \in FlagPairs
                /\ first.id = second.id
                /\ r1 # remote
                /\ ApplyEdit(r1, second) # r1
                /\ remote' = ApplyEdit(r1, second)
                /\ changed' = changed \cup Touched(remote, first) \cup Touched(r1, second)
                /\ lastOp' = [op |-> "remoteEdit", edit |-> second]
    /\ nRemoteEdits' = nRemoteEdits + 1
    /\ UNCHANGED <<vaultVars, indexVars, snapshotVars, syncToken, pluginVars,
                   queueVars, passVars>>

NextLifecycle ==
    \/ \E isFullSync \in BOOLEAN : SyncStart(isFullSync)
    \/ FetchFail
    \/ FetchOk
    \/ ProcessProjects
    \/ ProcessSections
    \/ ProcessTasks
    \/ Finish
    \/ RemoteEditOfKind({"completeTask", "deleteTask", "deleteSection", "archiveSection"})
    \/ RemoteEditTwice

\* a vault in sync, an account whose entities are completed, archived,
\* deleted, or two of these at once, and the passes
SpecLifecycle == InitQueue /\ [][NextLifecycle]_vars

\* the entity carries one of the flags
Flagged(e) ==
    \/ e.is_deleted
    \/ Has(e, "is_archived") /\ e.is_archived
    \/ Has(e, "completed_at") /\ e.completed_at # Null

\* the documents of the entity under the root, in the tree fs
DocsUnder(fs, type, id, root) ==
    {p \in DocsOf([files |-> fs], type, id) : IsPrefix(root, p)}

\* the entity is flagged and the Index points at its document in the Active
\* hierarchy when its loop starts: after the loop its document is under the
\* root of the first case of deleted, archived, completed that applies, and
\* the loop has put no document of it under another root
OneCase(e, type, cache) ==
    (/\ Flagged(e)
     /\ Has(cache, e.id)
     /\ cache[e.id] \in DocsOf(Vault, type, e.id)
     /\ ~InBucket(cache[e.id]))
    => /\ DocsUnder(files', type, e.id, BucketOf(e)) # {}
       /\ \A root \in {trashFolderPath, archiveFolderPath, doneFolderPath} \ {BucketOf(e)} :
              DocsUnder(files', type, e.id, root) \subseteq DocsUnder(files, type, e.id, root)

----------------------------------------------------------------------------
(* The cleanup sweep of a full pass *)

\* the step that ends a pass that fetched its payload
CleanupStep == pass.phase = "cleanup" /\ pass'.phase = "idle"

\* an entity of the kind that is in the Index and not in the merged cached
\* array: after the step it is not in the Index, and the document the Index
\* pointed at is under Done when it said completed, under Trash otherwise
Swept(type, cache, cacheAfter, cached) ==
    \A id \in DOMAIN cache :
        id \notin IdsOf(cached)
        => /\ ~Has(cacheAfter, id)
           /\ IsTFile(Vault, cache[id])
              => LET root == IF Get(files[cache[id]], "completed") = TRUE
                             THEN doneFolderPath ELSE trashFolderPath
                 IN  \E p \in DOMAIN files' :
                         IsPrefix(root, p) /\ files'[p] = files[cache[id]]

\* C26: on a full pass every (kind, id) still in the Identity Index and
\* absent from the merged SnapshotCache is removed from the Index and its
\* document is relocated under the Done root if its last known state is
\* completed and under the Trash root otherwise; on an incremental pass no
\* entity is swept
C26_CleanupSweep ==
    [][CleanupStep =>
          IF pass.isFullSync
          THEN /\ Swept("project", projectFileCache, projectFileCache',
                        pass.caches.cachedProjects)
               /\ Swept("section", sectionFileCache, sectionFileCache',
                        pass.caches.cachedSections)
               /\ Swept("task", taskFileCache, taskFileCache', pass.caches.cachedTasks)
          ELSE /\ files' = files
               /\ <<projectFileCache', sectionFileCache', taskFileCache'>>
                      = <<projectFileCache, sectionFileCache, taskFileCache>>
      ]_vars

----------------------------------------------------------------------------
(* The result of an accepted update *)

\* the commands of the batch
CommandsOf(batch) == {batch[i] : i \in 1..Len(batch)}

\* the step applies the update to the cached task at position i: the fields
\* the command carries take the command's values when the whole batch was
\* accepted (but for the description, which the result loop does not write),
\* and every other field of the entry is what it was
PatchedBy(command, i, accepted) ==
    /\ DOMAIN cachedTasks'[i] = DOMAIN cachedTasks[i]
    /\ \A f \in DOMAIN cachedTasks[i] :
           cachedTasks'[i][f] =
               IF accepted /\ f # "id" /\ f # "description" /\ Has(command.args, f)
               THEN command.args[f]
               ELSE cachedTasks[i][f]

\* C27: applying an accepted "update" changes, in the SnapshotCache entry of
\* that task, only the fields carried by the command; every other field of
\* that entry, every other cache entry, the Identity Index and the
\* document's path are unchanged
C27_UpdateTouchesOnlyItsFields ==
    [][lastOp'.op = "return" =>
          LET batch == lastOp'.drain.batch
              result == lastOp'.result
          IN  /\ Len(cachedTasks') = Len(cachedTasks)
              /\ \A i \in 1..Len(cachedTasks) :
                     /\ \A c \in CommandsOf(batch) :
                            (c.type = "item_update" /\ c.args.id = cachedTasks[i].id
                             /\ Get(result.syncStatus, c.uuid) = "ok")
                            => /\ PatchedBy(c, i, allOk(result))
                               /\ \A p \in DocsOf(Vault, "task", c.args.id) :
                                      p \in DOMAIN files'
                     /\ (\A c \in CommandsOf(batch) : c.args.id # cachedTasks[i].id)
                            => cachedTasks'[i] = cachedTasks[i]
              /\ <<cachedProjects', cachedSections'>> = <<cachedProjects, cachedSections>>
              /\ <<projectFileCache', sectionFileCache', taskFileCache'>>
                     = <<projectFileCache, sectionFileCache, taskFileCache>>
      ]_vars

\* an update of the content of a task has been accepted and applied
C27_Witness ==
    /\ lastOp.op = "return"
    /\ allOk(lastOp.result)
    /\ \E c \in CommandsOf(lastOp.drain.batch) :
           /\ c.type = "item_update"
           /\ c.args.content = <<"Z">>
           /\ cachedTasks[FindById(cachedTasks, c.args.id)].content = <<"Z">>
           /\ cachedTasks[FindById(cachedTasks, c.args.id)].priority = 1

----------------------------------------------------------------------------
(* Specification of the change detector: a vault in sync, a user who edits  *)
(* one or several fields of a task document, and the notifications          *)

\* what the user writes into the frontmatter of a task document at once
FieldEdits ==
    {[completed |-> TRUE],
     [completed |-> TRUE, content |-> UserName, priority |-> 3],
     [content |-> UserName],
     [content |-> <<>>],
     [description |-> <<"D">>],
     [priority |-> 3],
     [priority |-> 5],
     [priority |-> 0, content |-> UserName],
     [due_string |-> "tomorrow"],
     [content |-> UserName, description |-> <<"D">>, priority |-> 3,
      due_string |-> "tomorrow"]}

\* the user edits the frontmatter of a task document that has no edit the
\* handler has yet to be told of
UserEditFields ==
    /\ pass.phase = "idle"
    /\ \E file \in TaskDocuments : \E edit \in FieldEdits :
        /\ ~PendingEdit(file)
        /\ Spread(files[file], edit) # files[file]
        /\ files' = processFrontMatter(Vault, file, edit).files
        /\ lastOp' = [op |-> "userEdit", file |-> file, edit |-> edit]
    /\ UNCHANGED <<folders, indexVars, snapshotVars, syncToken, pluginVars,
                   queueVars, remoteVars, passVars>>

NextDetect ==
    \/ UserEditFields
    \/ MetadataChange

SpecDetect == InitQueue /\ [][NextDetect]_vars

\* the intents the step has enqueued
Emitted ==
    IF Len(window') > Len(window) THEN SubSeq(window', Len(window) + 1, Len(window'))
    ELSE <<>>

\* the content of the document: its content field, its name when that is blank
ContentOf(file) ==
    IF Has(files[file], "content") /\ TrimEnd(TrimStart(files[file].content)) # <<>>
    THEN files[file].content ELSE Basename(file)

\* the tracked fields of the document that differ from the cached task, with
\* the document's values; a priority outside 1..4 is not among them
Differing(file, cachedTask) ==
    LET fm == Spread(files[file], [content |-> ContentOf(file)])
        fields ==
            {f \in {"content", "description", "priority", "due_string"} :
                /\ Has(fm, f)
                /\ fm[f] # cachedTask[f]
                /\ f = "priority" => fm[f] \in 1..4}
    IN  [f \in fields |-> fm[f]]

\* the step is a change notification, between passes, for a task document
\* the Index knows and whose task is cached
ChangeNotified(file, id, i) ==
    /\ lastOp'.op = "metadataChange"
    /\ lastOp'.file = file
    /\ ~isSyncing
    /\ Get(taskFileCache, id) = file
    /\ i = FindById(cachedTasks, id)
    /\ i # 0

C29_PriorityInRange ==
    [][\A file \in TaskDocuments : \A id \in TaskIds : \A i \in 1..Len(cachedTasks) :
          ChangeNotified(file, id, i) =>
              LET fm == files[file]
                  cachedTask == cachedTasks[i]
                  others ==
                      {f \in {"description", "due_string"} : fm[f] # cachedTask[f]}
                      \cup (IF ContentOf(file) # cachedTask.content
                            THEN {"content"} ELSE {})
              IN  /\ \A k \in 1..Len(Emitted) :
                         (Emitted[k].type = "item_update" /\ Has(Emitted[k].args, "priority"))
                         => Emitted[k].args.priority \in 1..4
                  /\ (fm.completed = cachedTask.is_completed /\ fm.priority \notin 1..4)
                     => IF others = {} THEN Emitted = <<>>
                        ELSE /\ Len(Emitted) = 1
                             /\ DOMAIN Emitted[1].args = {"id"} \cup others
      ]_vars

\* a notification for a document whose priority is outside 1..4 and whose
\* content differs from the cache has enqueued an "update" of the content alone
C29_Witness ==
    /\ lastOp.op = "metadataChange"
    /\ window # <<>>
    /\ Last(window).type = "item_update"
    /\ Get(taskFileCache, Last(window).args.id) = lastOp.file
    /\ files[lastOp.file].priority \notin 1..4
    /\ DOMAIN Last(window).args = {"id", "content"}

----------------------------------------------------------------------------
(* Specification of renamed task documents: a vault in sync, a user who     *)
(* edits and renames task documents, and the notifications                  *)

\* the user blanks the content field of a task document
UserBlanksContent ==
    /\ pass.phase = "idle"
    /\ \E file \in TaskDocuments :
        /\ files[file].content # <<>>
        /\ files' = processFrontMatter(Vault, file, [content |-> <<>>]).files
        /\ lastOp' = [op |-> "userEdit", file |-> file, edit |-> [content |-> <<>>]]
    /\ UNCHANGED <<folders, indexVars, snapshotVars, syncToken, pluginVars,
                   queueVars, remoteVars, passVars>>

NextRenamed ==
    \/ UserBlanksContent
    \/ UserEdit
    \/ LocalRename
    \/ MetadataChange
    \/ RenameNotification

SpecRenamed == InitQueue /\ [][NextRenamed]_vars

\* the document is the one of a cached task, its content field is blank and
\* its name is not the cached content
RenamedBlank(file, i) ==
    /\ Get(files[file], "todoist_id") = cachedTasks[i].id
    /\ InBaseFolder(file)
    /\ ~InBucket(file)
    /\ TrimEnd(TrimStart(files[file].content)) = <<>>
    /\ Basename(file) # cachedTasks[i].content

\* C30: when a synced task document is renamed outside a pass, its content
\* field is blank and the new document name differs from the cached content,
\* exactly one "update" intent with content = new document name is enqueued
\* for that task
C30_RenameSendsName ==
    [][\A file \in TaskDocuments : \A i \in 1..Len(cachedTasks) :
          (/\ lastOp.op = "localRename"
           /\ lastOp'.op = "rename"
           /\ lastOp'.file = file
           /\ ~isSyncing
           /\ RenamedBlank(file, i))
          => /\ Len(Emitted) = 1
             /\ Emitted[1].type = "item_update"
             /\ Emitted[1].args = [id |-> cachedTasks[i].id, content |-> Basename(file)]
      ]_vars

----------------------------------------------------------------------------
(* Specification of entities whose name is blank: a vault in sync, an       *)
(* account in which a project, a section or a task is given a blank name,   *)
(* and the passes                                                           *)

\* a name that is empty after sanitization
BlankName == <<" ">>

\* a project, a section or a task is given a blank name on the service's side
RemoteBlank ==
    /\ nRemoteEdits < MaxRemoteEdits
    /\ pass.phase = "idle"
    /\ \/ \E id \in DOMAIN remote.projects :
              /\ remote' = [remote EXCEPT !.projects[id].name = BlankName]
              /\ changed' = changed \cup {id}
              /\ lastOp' = [op |-> "remoteEdit", edit |-> [kind |-> "blankProject", id |-> id]]
       \/ \E id \in DOMAIN remote.sections :
              /\ remote' = [remote EXCEPT !.sections[id].name = BlankName]
              /\ changed' = changed \cup {id}
              /\ lastOp' = [op |-> "remoteEdit", edit |-> [kind |-> "blankSection", id |-> id]]
       \/ \E id \in DOMAIN remote.tasks :
              /\ remote' = [remote EXCEPT !.tasks[id].content = BlankName]
              /\ changed' = changed \cup {id}
              /\ lastOp' = [op |-> "remoteEdit", edit |-> [kind |-> "blankTask", id |-> id]]
    /\ nRemoteEdits' = nRemoteEdits + 1
    /\ UNCHANGED <<vaultVars, indexVars, snapshotVars, syncToken, pluginVars,
                   queueVars, passVars>>

NextBlank ==
    \/ \E isFullSync \in BOOLEAN : SyncStart(isFullSync)
    \/ FetchFail
    \/ FetchOk
    \/ ProcessProjects
    \/ ProcessSections
    \/ ProcessTasks
    \/ Finish
    \/ RemoteBlank

SpecBlank == InitSync /\ [][NextBlank]_vars

\* the name of a project or section, the content of a task
NameOf(e) == IF Has(e, "content") THEN e.content ELSE e.name

\* the entity is active and its name is empty after sanitization: its loop
\* leaves its documents where they are and its Index entry as it is
SkippedWhenBlank(e, type, cache, cacheAfter) ==
    (sanitizeName(NameOf(e)) = <<>> /\ ~Flagged(e))
    => /\ DocsOf([files |-> files'], type, e.id) = DocsOf(Vault, type, e.id)
       /\ Get(cacheAfter, e.id) = Get(cache, e.id)

\* C31: an entity of any kind whose name is empty after sanitization is
\* skipped for the pass: no folder or document is created, renamed or moved
\* for it and no Index entry is written for it
C31_BlankNameSkipped ==
    [][/\ (pass.phase = "projects" /\ lastOp'.op = "projects")
          => \A i \in 1..Len(pass.fetchedData.projects) :
                 SkippedWhenBlank(pass.fetchedData.projects[i], "project",
                                  projectFileCache, projectFileCache')
       /\ (pass.phase = "sections" /\ lastOp'.op = "sections")
          => \A i \in 1..Len(pass.fetchedData.sections) :
                 SkippedWhenBlank(pass.fetchedData.sections[i], "section",
                                  sectionFileCache, sectionFileCache')
       /\ (pass.phase = "tasks" /\ lastOp'.op = "tasks")
          => \A i \in 1..Len(pass.fetchedData.tasks) :
                 SkippedWhenBlank(pass.fetchedData.tasks[i], "task",
                                  taskFileCache, taskFileCache')
      ]_vars

----------------------------------------------------------------------------
(* A tree operation that fails on one entity of a pass: the vault rejects   *)
(* the create, rename or folder creation of one task of the task loop       *)

NoFault == "none"

\* one task of tasksToProcess when the tree operation it awaits throws: the
\* deleted branch catches and logs, the other branches reach the catch of
\* the callback, which sets syncErrorOccurred
processTaskThrows(w, task) ==
    LET id == task.id
        cachedTaskPath == Get(w.taskFileCache, id)
        hasFile == cachedTaskPath # Null /\ IsTFile(w.v, cachedTaskPath)
        unindexed == [w EXCEPT !.taskFileCache = MapDelete(@, id)]
    IN  IF task.is_deleted
        THEN IF ~hasFile THEN unindexed
             ELSE [w EXCEPT !.v = processFrontMatter(w.v, cachedTaskPath,
                                                     [is_deleted |-> TRUE])]
        ELSE IF task.completed_at # Null
        THEN IF ~hasFile THEN unindexed
             ELSE [w EXCEPT !.v = processFrontMatter(w.v, cachedTaskPath,
                                                     TaskFrontmatter(task)),
                            !.err = TRUE]
        ELSE [w EXCEPT !.err = TRUE]

RECURSIVE processTasksWithFault(_, _, _, _, _)
processTasksWithFault(w, tasksToProcess, faulty, lookupProjectsApi, lookupSectionsApi) ==
    IF tasksToProcess = <<>> THEN w
    ELSE processTasksWithFault(
             IF Head(tasksToProcess).id = faulty
             THEN processTaskThrows(w, Head(tasksToProcess))
             ELSE processTask(w, Head(tasksToProcess), lookupProjectsApi,
                              lookupSectionsApi),
             Tail(tasksToProcess), faulty, lookupProjectsApi, lookupSectionsApi)

\* the task loop, the tree operation of at most one task throwing
ProcessTasksWithFault ==
    /\ pass.phase = "tasks"
    /\ \E faulty \in IdsOf(pass.fetchedData.tasks) \cup {NoFault} :
        LET w == processTasksWithFault(World, pass.fetchedData.tasks, faulty,
                     pass.caches.cachedProjects, pass.caches.cachedSections)
        IN  /\ Store(w)
            /\ pass' = [pass EXCEPT !.phase = "cleanup", !.err = w.err]
            /\ lastOp' = [op |-> "tasks", faulty |-> faulty]
            /\ UNCHANGED <<snapshotVars, syncToken, pluginVars, queueVars, remoteVars,
                           nPasses>>

NextFault ==
    \/ RemoteEditOfKind({"deleteTask", "completeTask", "renameTask"})
    \/ \E isFullSync \in BOOLEAN : SyncStart(isFullSync)
    \/ FetchFail
    \/ FetchOk
    \/ ProcessProjects
    \/ ProcessSections
    \/ ProcessTasksWithFault
    \/ Finish

SpecFault == InitQueue /\ [][NextFault]_vars

\* the task loop of the step that is being taken
TaskLoopStep == pass.phase = "tasks" /\ lastOp'.op = "tasks"

\* the task of the payload has a create, rename or move to do in this loop
HasTreeOperation(task) ==
    IF task.is_deleted \/ task.completed_at # Null
    THEN /\ Has(taskFileCache, task.id)
         /\ IsTFile(Vault, taskFileCache[task.id])
    ELSE TRUE

\* the tasks of the payload other than the faulty one whose own processing
\* sets syncErrorOccurred
RECURSIVE failedTasks(_, _, _, _, _)
failedTasks(w, tasksToProcess, faulty, lookupProjectsApi, lookupSectionsApi) ==
    IF tasksToProcess = <<>> THEN {}
    ELSE LET task == Head(tasksToProcess)
             w0 == [w EXCEPT !.err = FALSE]
             w1 == IF task.id = faulty THEN processTaskThrows(w0, task)
                   ELSE processTask(w0, task, lookupProjectsApi, lookupSectionsApi)
         IN  (IF w1.err /\ task.id # faulty THEN {task.id} ELSE {})
             \cup failedTasks(w1, Tail(tasksToProcess), faulty, lookupProjectsApi,
                              lookupSectionsApi)

\* the active task has its document, written from the payload, in the Index
PlacedAfter(task) ==
    /\ Has(taskFileCache', task.id)
    /\ taskFileCache'[task.id] \in DOMAIN files'
    /\ files'[taskFileCache'[task.id]].todoist_id = task.id
    /\ files'[taskFileCache'[task.id]].content = task.content

\* C32: a tree operation that fails on one task of a pass sets the error flag
\* and stops nothing: every other active task of the payload has its document
\* written and indexed by the same loop, the flag stays set to the end of the
\* pass, a full pass still sweeps the Index, and the pass ends reported as
\* failed
C32_TreeErrorDoesNotAbort ==
    [][/\ TaskLoopStep
          => \A i \in DOMAIN pass.fetchedData.tasks :
                 LET faulty == pass.fetchedData.tasks[i]
                     failed == failedTasks(World, pass.fetchedData.tasks, faulty.id,
                                           pass.caches.cachedProjects,
                                           pass.caches.cachedSections)
                 IN  lastOp'.faulty = faulty.id /\ HasTreeOperation(faulty)
                     => /\ pass'.err
                        /\ \A j \in DOMAIN pass.fetchedData.tasks :
                               LET task == pass.fetchedData.tasks[j]
                               IN  /\ ActiveTask(task)
                                   /\ task.id \notin failed \cup {faulty.id}
                                   => PlacedAfter(task)
       /\ pass.phase \in {"projects", "sections", "tasks"} /\ pass.err
          => pass'.err
       /\ pass.phase = "cleanup" /\ pass.err /\ lastOp'.op = "passEnd"
          => /\ lastOp'.failed
             /\ pass.isFullSync
                => /\ \A id \in DOMAIN projectFileCache' :
                          id \in IdsOf(cachedProjects')
                   /\ \A id \in DOMAIN sectionFileCache' :
                          id \in IdsOf(cachedSections')
                   /\ \A id \in DOMAIN taskFileCache' :
                          id \in IdsOf(cachedTasks')]_vars

----------------------------------------------------------------------------
(* A pass with no stored token *)

\* sync_token.txt is removed from the plugin's folder (the plugin is
\* installed again, the vault is opened on another device)
CursorLost ==
    /\ pass.phase = "idle"
    /\ syncToken # ""
    /\ syncToken' = ""
    /\ lastOp' = [op |-> "cursorLost"]
    /\ UNCHANGED <<vaultVars, indexVars, snapshotVars, pluginVars, queueVars,
                   remoteVars, passVars>>

NextCursor ==
    \/ CursorLost
    \/ RemoteEditOfKind({"deleteTask", "renameTask"})
    \/ \E isFullSync \in BOOLEAN : SyncStart(isFullSync)
    \/ FetchFail
    \/ FetchOk
    \/ ProcessProjects
    \/ ProcessSections
    \/ ProcessTasks
    \/ Finish

SpecCursor == InitSync /\ [][NextCursor]_vars

\* C33: a pass that finds no stored token is carried out as a full pass,
\* whatever was requested: the payload is the whole remote state, the
\* SnapshotCache the pass goes on with is the payload, and the pass is one
\* whose end runs the cleanup sweep
C33_NoCursorMeansFullPass ==
    [][pass.phase = "fetch" /\ lastOp'.op = "fetchOk" /\ syncToken = ""
       => /\ lastOp'.fetchedData = fetchTodoistData(TRUE)
          /\ pass'.caches = [cachedProjects |-> lastOp'.fetchedData.projects,
                             cachedSections |-> lastOp'.fetchedData.sections,
                             cachedTasks |-> lastOp'.fetchedData.tasks]
          /\ pass'.isFullSync]_vars

----------------------------------------------------------------------------
(* The Index rebuilt from the tree, in the order getMarkdownFiles lists the *)
(* documents                                                                *)

\* the orders in which getMarkdownFiles can list the documents
Scans(v) ==
    LET n == Cardinality(DOMAIN v.files)
    IN  {scan \in [1..n -> DOMAIN v.files] :
            \A i, j \in 1..n : scan[i] = scan[j] => i = j}

KindCache == [project |-> "projectFileCache", section |-> "sectionFileCache",
              task |-> "taskFileCache"]

\* populateAllCaches over the list: every document under the base folder with
\* a todoist_id and a known type is set in the map of its type
RECURSIVE populateScan(_, _, _)
populateScan(index, v, scan) ==
    IF scan = <<>> THEN index
    ELSE LET file == Head(scan)
             frontmatter == v.files[file]
             todoist_id == Get(frontmatter, "todoist_id")
             type == Get(frontmatter, "type")
         IN  populateScan(
                 IF /\ InBaseFolder(file)
                    /\ todoist_id # Null
                    /\ type \in DOMAIN KindCache
                 THEN [index EXCEPT ![KindCache[type]] = MapSet(@, todoist_id, file)]
                 ELSE index,
                 v, Tail(scan))

\* the user duplicates a document in its folder
UserCopy ==
    \E file \in DOMAIN files :
        LET copy == Front(file) \o <<MdName(<<"Copy">>)>>
        IN  /\ pass.phase = "idle"
            /\ InBaseFolder(file)
            /\ \A p \in DOMAIN files : Last(p) # MdName(<<"Copy">>)
            /\ files' = (copy :> files[file]) @@ files
            /\ lastOp' = [op |-> "userCopy", file |-> file]
            /\ UNCHANGED <<folders, indexVars, snapshotVars, syncToken, pluginVars,
                           queueVars, remoteVars, passVars>>

\* onload: the Index is rebuilt from the tree
Rebuild ==
    \E scan \in Scans(Vault) :
        LET index == populateScan([projectFileCache |-> Empty,
                                   sectionFileCache |-> Empty,
                                   taskFileCache |-> Empty], Vault, scan)
        IN  /\ pass.phase = "idle"
            /\ inFlight = <<>>
            /\ projectFileCache' = index.projectFileCache
            /\ sectionFileCache' = index.sectionFileCache
            /\ taskFileCache' = index.taskFileCache
            /\ lastOp' = [op |-> "rebuild", scan |-> scan]
            /\ UNCHANGED <<vaultVars, snapshotVars, syncToken, pluginVars, queueVars,
                           remoteVars, passVars>>

NextRebuild ==
    \/ UserCopy
    \/ Rebuild

SpecRebuild == InitQueue /\ [][NextRebuild]_vars

\* the first document of the set in the list
FirstFound(scan, docs) ==
    scan[CHOOSE i \in DOMAIN scan :
             scan[i] \in docs /\ \A j \in 1..(i - 1) : scan[j] \notin docs]

\* the map of the type holds the ids some document of the type declares, each
\* at the first document of the list that declares it
RebuiltFrom(scan, type, cache, ids) ==
    /\ DOMAIN cache = {id \in ids : DocsOf(Vault, type, id) # {}}
    /\ \A id \in DOMAIN cache : cache[id] = FirstFound(scan, DocsOf(Vault, type, id))

\* C34: after a rebuild the Index holds exactly the documents under the base
\* folder that declare a known type and an id, and of two documents that
\* declare the same type and id it holds the first one of the scan
C34_RebuildKeepsFirstFound ==
    lastOp.op = "rebuild"
    => /\ RebuiltFrom(lastOp.scan, "project", projectFileCache, ProjectIds)
       /\ RebuiltFrom(lastOp.scan, "section", sectionFileCache, SectionIds)
       /\ RebuiltFrom(lastOp.scan, "task", taskFileCache, TaskIds)

----------------------------------------------------------------------------
(* The task callbacks of a pass run concurrently: the order in which they   *)
(* complete, and the parent link of a subtask                               *)

\* the accounts: one of the two tasks may be a subtask of the other
SubtaskAccounts ==
    {[projects |-> ("p1" :> Project("p1", <<"A">>)),
      sections |-> ("s1" :> Section("s1", <<"S">>, "p1")),
      tasks |-> ("t1" :> ([parent_id |-> parent1] @@ Item("t1", <<"X">>, "p1", Null)))
                @@ ("t2" :> ([parent_id |-> parent2] @@ Item("t2", <<"Y">>, "p1", section_id))),
      issued |-> 0] :
        parent1 \in {Null, "t2"},
        parent2 \in {Null, "t1"},
        section_id \in {Null, "s1"}}

InitSubtasks ==
    /\ files = Empty
    /\ folders = {<<>>}
    /\ projectFileCache = Empty
    /\ sectionFileCache = Empty
    /\ taskFileCache = Empty
    /\ cachedProjects = <<>>
    /\ cachedSections = <<>>
    /\ cachedTasks = <<>>
    /\ syncToken = ""
    /\ isSyncing = FALSE
    /\ isInitialLoad = TRUE
    /\ pendingCommands = <<>>
    /\ timer = -1
    /\ isProcessing = FALSE
    /\ inFlight = <<>>
    /\ nextUuid = 0
    /\ window = <<>>
    /\ remote \in SubtaskAccounts
    /\ changed = {}
    /\ nRemoteEdits = 0
    /\ pass = NoPass
    /\ nPasses = 0
    /\ lastOp = NoOp

\* updateObsidianTask: the parent id, and the link to the parent's document
\* when the parent is in taskFileCache as the callback runs
\* parent_link: null
NoLink == <<>>

ParentFields(v, task, cache) ==
    IF task.parent_id = Null THEN [parent_id |-> Null]
    ELSE [parent_id |-> task.parent_id,
          parent_link |->
              IF Has(cache, task.parent_id)
              THEN IF Exists(v, cache[task.parent_id])
                   THEN Last(cache[task.parent_id])
                   ELSE <<"undefined">>
              ELSE NoLink]

\* one task of tasksToProcess, updateObsidianTask writing the parent fields
processTaskLinked(w, task, lookupProjectsApi, lookupSectionsApi) ==
    LET w1 == processTask([w EXCEPT !.err = FALSE], task, lookupProjectsApi,
                          lookupSectionsApi)
        file == Get(w1.taskFileCache, task.id)
        updated == /\ ActiveTask(task)
                   /\ ~w1.err
                   /\ file # Null
                   /\ IsTFile(w1.v, file)
        w2 == IF updated
              THEN [w1 EXCEPT !.v = processFrontMatter(@, file,
                                        ParentFields(w1.v, task, w.taskFileCache))]
              ELSE w1
    IN  [w2 EXCEPT !.err = w.err \/ w1.err]

RECURSIVE processTasksLinked(_, _, _, _)
processTasksLinked(w, tasksToProcess, lookupProjectsApi, lookupSectionsApi) ==
    IF tasksToProcess = <<>> THEN w
    ELSE processTasksLinked(
             processTaskLinked(w, Head(tasksToProcess), lookupProjectsApi,
                               lookupSectionsApi),
             Tail(tasksToProcess), lookupProjectsApi, lookupSectionsApi)

\* the orders in which the callbacks of the tasks can complete
Orders(n) == {order \in [1..n -> 1..n] : \A i, j \in 1..n : order[i] = order[j] => i = j}

\* the task loop: the callbacks are started together and awaited with
\* Promise.allSettled, they complete in any order
ProcessTasksConcurrently ==
    /\ pass.phase = "tasks"
    /\ \E order \in Orders(Len(pass.fetchedData.tasks)) :
        LET tasks == [i \in 1..Len(pass.fetchedData.tasks) |->
                         pass.fetchedData.tasks[order[i]]]
            w == processTasksLinked(World, tasks, pass.caches.cachedProjects,
                                    pass.caches.cachedSections)
        IN  /\ Store(w)
            /\ pass' = [pass EXCEPT !.phase = "cleanup", !.err = w.err]
            /\ lastOp' = [op |-> "tasks", order |-> order]
            /\ UNCHANGED <<snapshotVars, syncToken, pluginVars, queueVars, remoteVars,
                           nPasses>>

NextSubtasks ==
    \/ RemoteEditOfKind({"renameTask", "completeTask"})
    \/ \E isFullSync \in BOOLEAN : SyncStart(isFullSync)
    \/ FetchFail
    \/ FetchOk
    \/ ProcessProjects
    \/ ProcessSections
    \/ ProcessTasksConcurrently
    \/ Finish

SpecSubtasks == InitSubtasks /\ [][NextSubtasks]_vars

\* C35: what the task loop of a pass leaves does not depend on the order in
\* which its tasks are processed: whatever the order, the document paths, the
\* document metadata (the parent link of a subtask included) and the Identity
\* Index after the loop are those the loop leaves when it processes the tasks
\* in the order of the payload
C35_OrderIndependent ==
    [][TaskLoopStep
       => LET w == processTasksLinked(World, pass.fetchedData.tasks,
                       pass.caches.cachedProjects, pass.caches.cachedSections)
          IN  /\ files' = w.v.files
              /\ folders' = w.v.folders
              /\ taskFileCache' = w.taskFileCache]_vars

----------------------------------------------------------------------------
(* The Command Queue while the plugin stays loaded: enqueues, the timer,    *)
(* direct calls of processPendingCommands and the answers of the service    *)

SpecQueueLive == InitQueue /\ [][NextQueueLive]_vars

\* C36: at most one dispatch is in flight. A call of postTodoistCommands
\* starts only when none is in flight and the flag is down, the flag is up
\* exactly while a call is in flight, and the end of a drain, whatever the
\* service answered, leaves the flag down and no call in flight
C36_OneDispatchInFlight ==
    [][/\ Len(inFlight') <= 1
       /\ (isProcessing' <=> inFlight' # <<>>)
       /\ Len(inFlight') > Len(inFlight) => (inFlight = <<>> /\ ~isProcessing)
       /\ lastOp'.op = "return" => (~isProcessing' /\ inFlight' = <<>>)]_vars

\* a direct call and a firing of the timer found a drain in flight and
\* started nothing, the commands they came for are still pending
C36_Witness ==
    /\ lastOp.op \in {"direct", "fire"}
    /\ ~lastOp.started
    /\ isProcessing
    /\ Len(inFlight) = 1
    /\ pendingCommands # <<>>

----------------------------------------------------------------------------
(* The flag isSyncing over every way a pass can end *)

\* the sync command with no API key in the settings: syncOrFullSyncTasks
\* returns what it was given before its first await
SyncWithoutKey ==
    /\ ~isSyncing
    /\ pass.phase = "idle"
    /\ lastOp' = [op |-> "noKey"]
    /\ UNCHANGED <<vaultVars, indexVars, snapshotVars, syncToken, pluginVars, queueVars,
                   remoteVars, passVars>>

\* an error outside the handlers of the loops: the catch of the engine, its
\* finally and the return to the callback
PassThrows ==
    /\ pass.phase \in {"projects", "sections", "tasks", "cleanup"}
    /\ cachedProjects' = pass.caches.cachedProjects
    /\ cachedSections' = pass.caches.cachedSections
    /\ cachedTasks' = pass.caches.cachedTasks
    /\ isInitialLoad' = pass.newIsInitialLoad
    /\ isSyncing' = FALSE
    /\ pass' = NoPass
    /\ lastOp' = [op |-> "passThrown"]
    /\ UNCHANGED <<vaultVars, indexVars, syncToken, queueVars, remoteVars, nPasses>>

NextFlag ==
    \/ \E isFullSync \in BOOLEAN : SyncStart(isFullSync)
    \/ SyncWithoutKey
    \/ FetchFail
    \/ FetchOk
    \/ ProcessProjects
    \/ ProcessSections
    \/ ProcessTasks
    \/ PassThrows
    \/ Finish
    \/ UserEdit
    \/ MetadataChange

SpecFlag == InitQueue /\ [][NextFlag]_vars

PassEnds == {"passEnd", "passThrown", "noKey"}

\* C37: isSyncing is up exactly while a pass runs. A pass starts only with
\* the flag down and raises it; however the pass ends (completed, no API
\* key, failed fetch, error thrown) the flag is down afterwards; a change
\* notification queues a command exactly when the flag is down and the
\* document differs from the SnapshotCache
C37_FlagTracksPass ==
    [][/\ (isSyncing' <=> pass'.phase # "idle")
       /\ lastOp'.op = "syncStart" => (~isSyncing /\ pass.phase = "idle" /\ isSyncing')
       /\ lastOp'.op \in PassEnds => ~isSyncing'
       /\ lastOp'.op = "metadataChange"
          => (nextUuid' # nextUuid
              <=> (~isSyncing /\ PendingEdit(lastOp'.file)))]_vars

\* a pass has run and ended, the user has edited a document since, and the
\* notification for it has queued a command
C37_Witness ==
    /\ lastOp.op = "metadataChange"
    /\ nPasses > 0
    /\ ~isSyncing
    /\ pendingCommands # <<>>

----------------------------------------------------------------------------
(* An "update" that comes onto a pending "complete" or "uncomplete" *)

\* C38: precedence does not depend on the order of arrival. When an "update"
\* was enqueued onto a pending "complete" or "uncomplete" of the same entity,
\* the batch that is dispatched still holds the "complete" or "uncomplete"
\* command for that entity.
C38_LaterUpdateDoesNotDisplace ==
    \A d \in Drains : \A id \in TaskIds :
        LET intents == ForId(d.intents, id)
            sent == ForId(d.batch, id)
        IN  (/\ Len(intents) = 2
             /\ intents[1].type \in {"item_complete", "item_uncomplete"}
             /\ intents[2].type = "item_update")
            => \E i \in DOMAIN sent : sent[i] = intents[1]

----------------------------------------------------------------------------
(* An edit of a task document from the notification to the answer of the    *)
(* service                                                                  *)

\* what the user writes into one tracked field
TrackedEdits ==
    {[content |-> UserName], [description |-> <<"D">>], [priority |-> 3],
     [due_string |-> "tomorrow"]}

\* the user edits one tracked field of a task document, with no other edit
\* waiting to be sent
UserEditTracked ==
    /\ pass.phase = "idle"
    /\ pendingCommands = <<>>
    /\ inFlight = <<>>
    /\ \A file \in DOMAIN files : ~PendingEdit(file)
    /\ \E file \in TaskDocuments : \E edit \in TrackedEdits :
        /\ Spread(files[file], edit) # files[file]
        /\ files' = processFrontMatter(Vault, file, edit).files
        /\ lastOp' = [op |-> "userEdit", file |-> file, edit |-> edit]
    /\ UNCHANGED <<folders, indexVars, snapshotVars, syncToken, pluginVars,
                   queueVars, remoteVars, passVars>>

NextConverge ==
    \/ UserEditTracked
    \/ MetadataChange
    \/ ProcessNow
    \/ DispatchReturn

SpecConverge == InitQueue /\ [][NextConverge]_vars

\* C39: once a batch has been accepted whole, for every "update" of the batch
\* the SnapshotCache entry equals the document of the task on content,
\* description, priority and due string, and a further notification for the
\* document emits no intent
C39_AcceptedUpdateConverges ==
    (lastOp.op = "return" /\ allOk(lastOp.result))
    => \A i \in DOMAIN lastOp.drain.batch :
           LET command == lastOp.drain.batch[i]
               k == Lookup(cachedTasks, command.args.id)
           IN  command.type = "item_update"
               => \A file \in DocsOf(Vault, "task", command.args.id) :
                      /\ cachedTasks[k].content = ContentOf(file)
                      /\ cachedTasks[k].description = files[file].description
                      /\ cachedTasks[k].priority = files[file].priority
                      /\ cachedTasks[k].due_string = files[file].due_string
                      /\ detectChange(file, files[file], "u") = <<>>

----------------------------------------------------------------------------
(* The Identity Index against the tree *)

\* every id of the map is at a path that holds a document
NoDangling(cache) == \A id \in DOMAIN cache : cache[id] \in DOMAIN files

\* C40: when a pass or a drain has completed, every entry of the Identity
\* Index, of projects, sections and tasks, points to a path at which a
\* document exists
C40_NoDanglingEntries ==
    ((lastOp.op = "passEnd" /\ lastOp.fetched) \/ lastOp.op = "return")
    => /\ NoDangling(projectFileCache)
       /\ NoDangling(sectionFileCache)
       /\ NoDangling(taskFileCache)


====
